---- MODULE Spec2Model ----
(***************************************************************************)
(* Keyboard arbitration and media-action dispatch of the Seeker browser    *)
(* extension: KeyboardHandler (js/core/keyboard-handler.js),               *)
(* MediaController (js/core/media-controller.js), ConfigManager            *)
(* (js/utils/config.js) and the start-up sequence of SeekerExtension       *)
(* (js/main.js).                                                           *)
(*                                                                         *)
(* Units: times are milliseconds, media positions are seconds, volumes are *)
(* hundredths (100 is the element's volume 1.0, a step of 10 is 0.1).      *)
(***************************************************************************)
EXTENDS Integers, Sequences, FiniteSets, TLC

(***************************************************************************)
(* Program constants.                                                      *)
(***************************************************************************)
keyRepeatDelay == 150

maxRetries == 5

MetadataTimeout == 2000

DefaultSeekAmount == 5

DefaultVolumeStep == 10

EstimatedDuration == 2700

(***************************************************************************)
(* Bounds of the model.                                                    *)
(***************************************************************************)
\* the clock stops advancing here (arbitration runs)
MaxTime == 300

\* the clock stops advancing here (executor runs, which need the 2 s wait)
MaxExecTime == 3200

\* calls made on the MediaController and the ConfigManager from outside
MaxCalls == 2

\* keys the environment holds down at once
MaxPressed == 2

\* seeks left waiting for metadata at once
MaxPending == 1

VARIABLES
    hostname,          \* window.location.hostname
    conflictPolicy,    \* needsConflictPrevention of the host's site policy
    domVideo,          \* document.querySelector('video') finds an element
    dom,               \* site controls present in the page (Hulu fallback)
    currentPlayer,     \* MediaController.currentPlayer is a player handle
    video,             \* the media element of the page
    settings,          \* ConfigManager.currentSettings
    keyboardHandler,   \* a KeyboardHandler is constructed and listening
    isEnabled,         \* KeyboardHandler.isEnabled
    pressedKeys,       \* KeyboardHandler.pressedKeys
    lastKeyTime,       \* KeyboardHandler.lastKeyTime
    keyMappings,       \* KeyboardHandler.keyMappings
    now,               \* Date.now(), measured from the page load
    evt,               \* what the last dispatched keydown event underwent
    pendingSeek,       \* seeks suspended in waitForVideoMetadata
    lastOp,            \* the last MediaController action and what it wrote
    muteRun,           \* consecutive toggleMute invocations and where they began
    apiCalls,          \* MediaController and ConfigManager calls made from outside
    phase,             \* where SeekerExtension's start-up sequence stands
    retryCount,        \* SeekerExtension.retryCount
    retryDelay,        \* delay of the retry timer last armed
    giveUpLogs,        \* 'Max retries reached, giving up' entries logged
    configAvailable,   \* window.SeekerConfig is defined
    configLoaded,      \* ConfigManager.loaded
    isInitialized,     \* SeekerExtension.isInitialized
    platformIntegration, \* name of SeekerExtension.platformIntegration, or "null"
    listeners,         \* KeyboardHandlers whose keydown listener is bound
    urlWatchers,       \* checkUrlChange intervals running
    urlNotices,        \* watchers that have yet to see the last URL change
    reinitTimers,      \* armed timers that will call reinitialize
    initTimers,        \* pending calls of initializeComponents
    userEnabled,       \* the last setEnabled command given from outside
    skipButton,        \* the site's skip button: "absent", "visible" or "hidden"
    skipListeners,     \* keydown listeners for the S shortcut on the document
    skipPolling,       \* a checkForSkipButton interval is running
    platformInitialized, \* isInitialized of the platform integration
    shortcut,          \* what the last S keydown did
    page,              \* the page's video elements, in document order
    detected,          \* video of PlayerDetector.currentPlayer, or "null"
    notices,           \* the last arguments onPlayerChange was called with
    scanDue,           \* a detectPlayer call is scheduled
    wait,              \* the last waitForVideoMetadata call: its promise and callbacks
    stored,            \* chrome.storage.sync's seekerSettings entry: <<>> or <<settings>>
    loadReply,         \* what the storage read of loadSettings has answered
    sink               \* SeekerNotification: its fields, elements and timers

vars == <<hostname, conflictPolicy, domVideo, dom, currentPlayer, video, settings,
          keyboardHandler, isEnabled, pressedKeys, lastKeyTime, keyMappings, now,
          evt, pendingSeek, lastOp, muteRun, apiCalls, phase, retryCount,
          retryDelay, giveUpLogs, configAvailable, configLoaded, isInitialized,
          platformIntegration, listeners, urlWatchers, urlNotices, reinitTimers,
          initTimers, userEnabled, skipButton, skipListeners, skipPolling,
          platformInitialized, shortcut, page, detected, notices, scanDue,
          wait,
          stored, loadReply,
          sink>>

siteVars == <<hostname, conflictPolicy>>

pageVars == <<domVideo, dom>>

handlerVars == <<keyboardHandler, isEnabled, pressedKeys, lastKeyTime, keyMappings>>

execVars == <<lastOp, muteRun, apiCalls>>

startupVars == <<phase, retryCount, retryDelay, giveUpLogs, configAvailable,
                 configLoaded, isInitialized>>

pipelineVars == <<platformIntegration, listeners, urlWatchers, urlNotices,
                  reinitTimers, initTimers, userEnabled>>

platformVars == <<skipButton, skipListeners, skipPolling, platformInitialized,
                  shortcut>>

detectorVars == <<page, detected, notices, scanDue>>

waitVars == <<wait>>

storageVars == <<stored, loadReply>>

sinkVars == <<sink>>

Min(a, b) == IF a <= b THEN a ELSE b

Max(a, b) == IF a >= b THEN a ELSE b

(***************************************************************************)
(* Hosts and the site registry.                                            *)
(***************************************************************************)
Hosts == {"www.hulu.com", "www.paramountplus.com", "example.com"}

\* String.prototype.includes over the hosts and the domains the code asks about
HostIncludes(h, domain) ==
    <<h, domain>> \in {<<"www.hulu.com", "hulu.com">>,
                       <<"www.paramountplus.com", "paramountplus.com">>,
                       <<"www.disneyplus.com", "disneyplus.com">>}

\* The site policy lookup the handler calls on its config object.  The
\* ConfigManager of js/utils/config.js does not define it; it is modelled
\* from the site-policy description: a host matching a supported site has a
\* policy row, any other host has none.
IsSupportedPlatform(h) ==
    \/ HostIncludes(h, "hulu.com")
    \/ HostIncludes(h, "paramountplus.com")
    \/ HostIncludes(h, "disneyplus.com")

\* The policy row of the host (its needsConflictPrevention flag is the
\* variable conflictPolicy), or no row.
GetPlatformConfig(h) ==
    IF IsSupportedPlatform(h)
    THEN [present |-> TRUE, needsConflictPrevention |-> conflictPolicy]
    ELSE [present |-> FALSE, needsConflictPrevention |-> FALSE]

(***************************************************************************)
(* The key-mapping table.                                                  *)
(***************************************************************************)
DigitCodes == <<"Digit0", "Digit1", "Digit2", "Digit3", "Digit4",
                "Digit5", "Digit6", "Digit7", "Digit8", "Digit9">>

DigitKeySet == {DigitCodes[i] : i \in 1..10}

DigitOf(code) == (CHOOSE i \in 1..10 : DigitCodes[i] = code) - 1

SeekKeySet == {"ArrowLeft", "ArrowRight", "KeyJ", "KeyL"}

DefaultCodes == SeekKeySet \cup {"ArrowUp", "ArrowDown", "Space", "KeyK", "KeyM",
                                 "KeyC", "KeyF"} \cup DigitKeySet

Entry(action, params, platformHandled, preventDefault) ==
    [action |-> action, params |-> params,
     platformHandled |-> platformHandled, preventDefault |-> preventDefault]

initializeKeyMappings ==
    [code \in DefaultCodes |->
        CASE code = "ArrowLeft"  -> Entry("seekBackward", <<>>, FALSE, FALSE)
          [] code = "ArrowRight" -> Entry("seekForward", <<>>, FALSE, FALSE)
          [] code = "ArrowUp"    -> Entry("volumeUp", <<>>, FALSE, FALSE)
          [] code = "ArrowDown"  -> Entry("volumeDown", <<>>, FALSE, FALSE)
          [] code = "Space"      -> Entry("showPlayPauseNotification", <<>>, TRUE, FALSE)
          [] code = "KeyK"       -> Entry("togglePlayPause", <<>>, FALSE, FALSE)
          [] code = "KeyJ"       -> Entry("seekBackwardExtended", <<>>, FALSE, FALSE)
          [] code = "KeyL"       -> Entry("seekForwardExtended", <<>>, FALSE, FALSE)
          [] code = "KeyM"       -> Entry("toggleMute", <<>>, FALSE, FALSE)
          [] code = "KeyC"       -> Entry("toggleCaptions", <<>>, FALSE, FALSE)
          [] code = "KeyF"       -> Entry("toggleFullscreen", <<>>, FALSE, FALSE)
          [] OTHER               -> Entry("seekToPercentage", <<DigitOf(code) * 10>>,
                                          FALSE, FALSE)]

\* action names the event path treats as seek operations:
\* action.includes('seek') || action.includes('Seek')
IsSeekAction(action) ==
    action \in {"seekBackward", "seekForward", "seekBackwardExtended",
                "seekForwardExtended", "seekToPercentage"}

(***************************************************************************)
(* The media element.  durKind tells whether video.duration is a finite    *)
(* number, NaN or Infinity; the element's currentTime is always finite.    *)
(* An element with readyState >= 1 has a current source (src/currentSrc).  *)
(***************************************************************************)
IsFiniteDuration(v) == v.durKind = "finite"

\* isFinite(video.duration) && video.duration > 0 && isFinite(video.currentTime)
MetadataAvailable(v) == IsFiniteDuration(v) /\ v.duration > 0

IsHulu == HostIncludes(hostname, "hulu.com")

\* The element's currentTime setter: the seek it starts ends inside the
\* media, at 0 for a negative position and at the end for one past it.
AssignCurrentTime(v, t) ==
    [v EXCEPT !.currentTime =
        IF t < 0 THEN 0
        ELSE IF IsFiniteDuration(v) /\ t > v.duration THEN v.duration
        ELSE t]

\* A value handed to the currentTime or the volume setter is recorded as
\* W(t); NaN (which the setter rejects with a TypeError) as WNaN.
W(t) == [nan |-> FALSE, val |-> t]

WNaN == [nan |-> TRUE, val |-> 0]

\* What an action call leaves behind: ret is the value the call returns
\* ("promise" for the async seek family), res the value it finally yields,
\* wrote the values it assigned to the element, clicked the site controls it
\* clicked, pend the suspended seek it leaves waiting.
Outcome(ret, res, v, d, wrote, clicked, pend) ==
    [ret |-> ret, res |-> res, video |-> v, dom |-> d, wrote |-> wrote,
     clicked |-> clicked, pend |-> pend, escaped |-> "none"]

\* the call also leaves behind a promise that rejects with no handler
Escaping(out, what) == [out EXCEPT !.escaped = what]

Sync(ret, v, wrote) == Outcome(ret, ret, v, dom, wrote, <<>>, <<>>)

Async(res, v, wrote, clicked) == Outcome("promise", res, v, dom, wrote, clicked, <<>>)

\* canSeek that looks at the media element only
canSeekAnyElement ==
    \/ video.durKind = "Inf"
    \/ video.durKind = "finite" /\ video.duration > 0

canSeek ==
    /\ currentPlayer
    /\ \/ video.durKind = "Inf"
       \/ video.durKind = "finite" /\ video.duration > 0

canControlPlayback == currentPlayer /\ settings.enablePlaybackControl

\* canControlVolume that does not read the setting
canControlVolumeAlways == currentPlayer

canControlVolume == currentPlayer /\ settings.enableVolumeControl

\* this.config.get('enableNotifications', true) guarding a notification call
Notifies == settings.enableNotifications

(***************************************************************************)
(* Volume and playback actions.                                            *)
(***************************************************************************)
\* The element's volume setter throws for a value outside [0, 1] and keeps
\* the old volume.
WriteVolume(newVolume) ==
    IF newVolume < 0 \/ newVolume > 100
    THEN Sync("throw", video, <<W(newVolume)>>)
    ELSE Sync("true", [video EXCEPT !.volume = newVolume], <<W(newVolume)>>)

volumeUp(step) ==
    IF ~canControlVolume THEN Sync("false", video, <<>>)
    ELSE WriteVolume(Min(video.volume + step, 100))

volumeDown(step) ==
    IF ~canControlVolume THEN Sync("false", video, <<>>)
    ELSE WriteVolume(Max(video.volume - step, 0))

\* muting instead of toggling
toggleMuteOn ==
    IF ~canControlVolume THEN Sync("false", video, <<>>)
    ELSE Sync("true", [video EXCEPT !.muted = TRUE], <<>>)

toggleMute ==
    IF ~canControlVolume THEN Sync("false", video, <<>>)
    ELSE Sync("true", [video EXCEPT !.muted = ~video.muted], <<>>)

\* togglePlayPause without the catch on the promise of video.play()
togglePlayPauseUncaught(playAllowed) ==
    IF ~canControlPlayback THEN Sync("false", video, <<>>)
    ELSE IF video.paused
         THEN IF playAllowed
              THEN Sync("true", [video EXCEPT !.paused = FALSE], <<>>)
              ELSE Escaping(Sync("true", video, <<>>), "unhandledrejection")
         ELSE Sync("true", [video EXCEPT !.paused = TRUE], <<>>)

\* playAllowed: whether the browser lets video.play() start playback
togglePlayPause(playAllowed) ==
    IF ~canControlPlayback THEN Sync("false", video, <<>>)
    ELSE IF video.paused
         THEN Sync("true", [video EXCEPT !.paused = ~playAllowed], <<>>)
         ELSE Sync("true", [video EXCEPT !.paused = TRUE], <<>>)

\* the notification a togglePlayPause call shows, in the call itself
\* ('Pause') or once the promise of video.play() is fulfilled ('Play')
PlayPauseNotice(playAllowed) ==
    IF ~canControlPlayback THEN "none"
    ELSE IF video.paused
         THEN IF playAllowed /\ Notifies /\ dom.notifier THEN "Play" ELSE "none"
         ELSE IF Notifies /\ dom.notifier THEN "Pause" ELSE "none"

showPlayPauseNotification ==
    IF ~canControlPlayback THEN Sync("false", video, <<>>)
    ELSE IF ~Notifies THEN Sync("false", video, <<>>)
    ELSE Sync("true", video, <<>>)

RECURSIVE DisableShowing(_)
DisableShowing(tracks) ==
    IF tracks = <<>> THEN <<>>
    ELSE <<IF Head(tracks) = "showing" THEN "disabled" ELSE Head(tracks)>>
         \o DisableShowing(Tail(tracks))

toggleCaptions ==
    IF ~currentPlayer THEN Sync("false", video, <<>>)
    ELSE IF Len(video.textTracks) = 0
         THEN IF dom.captionsButton
              THEN Outcome("true", "true", video, dom, <<>>, <<"captionsButton">>, <<>>)
              ELSE Sync("false", video, <<>>)
         ELSE LET hasVisibleTrack == \E i \in 1..Len(video.textTracks) :
                                         video.textTracks[i] = "showing"
                  off == DisableShowing(video.textTracks)
              IN  IF ~hasVisibleTrack
                  THEN Sync("true", [video EXCEPT !.textTracks =
                                        [off EXCEPT ![1] = "showing"]], <<>>)
                  ELSE Sync("true", [video EXCEPT !.textTracks = off], <<>>)

\* answer: what the browser does with requestFullscreen() or
\* exitFullscreen(): "granted", "rejected" when the promise it returns
\* rejects, "throws" when the call itself throws
toggleFullscreen(answer) ==
    IF ~currentPlayer THEN Sync("false", video, <<>>)
    ELSE IF answer = "throws" THEN Sync("false", video, <<>>)
    ELSE IF answer = "rejected"
         THEN Escaping(Sync("true", video, <<>>), "unhandledrejection")
    ELSE Outcome("true", "true", video,
                 [dom EXCEPT !.fullscreen = ~dom.fullscreen],
                 <<>>, <<>>, <<>>)

(***************************************************************************)
(* The seek family.                                                        *)
(***************************************************************************)
\* PercentOf is (percentage / 100) * duration; the percentages and durations
\* of the runs are multiples of ten, which keeps the quotient exact.
\* PercentOfTenths takes the percentage for a count of tenths.
PercentOfTenths(percentage, duration) == (percentage * duration) \div 10

PercentOf(percentage, duration) == (percentage * duration) \div 100

\* showSeekNotification reads this.currentPlayer.video.duration once the
\* notification sink and the notification setting are there
NotificationThrows == Notifies /\ dom.notifier /\ ~currentPlayer

\* the tail of a seek's try block: the assignment, then the notification
AssignAndNotify(v, t) ==
    Async(IF NotificationThrows THEN "false" ELSE "true",
          AssignCurrentTime(v, t), <<W(t)>>, <<>>)

\* a fallback that clicks a site control instead of assigning
ClickAndNotify(v, control) ==
    Async(IF NotificationThrows THEN "false" ELSE "true", v, <<>>, <<control>>)

\* waitForVideoMetadata up to its first checkMetadata() call: TRUE when it
\* answers true at once, FALSE when it leaves the seek waiting
waitForVideoMetadata(v) ==
    \/ MetadataAvailable(v)
    \/ /\ IsHulu
       /\ \/ v.readyState >= 1 /\ ~v.error
          \/ v.currentTime > 0
          \/ v.readyState >= 2

attemptHuluSeekFallback(v, amount, direction) ==
    IF direction = "forward" /\ dom.forwardButton
        THEN ClickAndNotify(v, "forwardButton")
    ELSE IF direction = "backward" /\ dom.rewindButton
        THEN ClickAndNotify(v, "rewindButton")
    ELSE IF dom.seekBar
        THEN ClickAndNotify(v, "seekBar")
    ELSE LET newTime == IF direction = "forward"
                        THEN v.currentTime + amount
                        ELSE Max(v.currentTime - amount, 0)
         IN  IF newTime >= 0
             THEN AssignAndNotify(v, newTime)
             ELSE Async("false", v, <<>>, <<>>)

attemptHuluPercentageSeekFallback(v, percentage) ==
    IF dom.seekBar
        THEN ClickAndNotify(v, "seekBar")
    ELSE LET estimatedDuration == IF MetadataAvailable(v) THEN v.duration
                                  ELSE EstimatedDuration
             newTime == PercentOf(percentage, estimatedDuration)
         IN  IF newTime >= 0 /\ newTime <= estimatedDuration
             THEN AssignAndNotify(v, newTime)
             ELSE Async("false", v, <<>>, <<>>)

\* seekForward from the point where waitForVideoMetadata has answered
seekForwardResume(v, amount, metadataReady) ==
    IF ~metadataReady
    THEN IF IsHulu THEN attemptHuluSeekFallback(v, amount, "forward")
         ELSE Async("false", v, <<>>, <<>>)
    ELSE CASE v.durKind = "finite" ->
                AssignAndNotify(v, Min(v.currentTime + amount, v.duration))
           [] v.durKind = "Inf" ->
                AssignAndNotify(v, v.currentTime + amount)
           [] OTHER -> Async("false", v, <<WNaN>>, <<>>)

\* seekBackward from the point where waitForVideoMetadata has answered
seekBackwardResume(v, amount, metadataReady) ==
    IF ~metadataReady
    THEN IF IsHulu THEN attemptHuluSeekFallback(v, amount, "backward")
         ELSE Async("false", v, <<>>, <<>>)
    ELSE AssignAndNotify(v, Max(v.currentTime - amount, 0))

\* seekToPercentage from the point where waitForVideoMetadata has answered
seekToPercentageResume(v, percentage, metadataReady) ==
    IF ~metadataReady
    THEN IF IsHulu THEN attemptHuluPercentageSeekFallback(v, percentage)
         ELSE Async("false", v, <<>>, <<>>)
    ELSE IF v.durKind # "finite" \/ PercentOf(percentage, v.duration) < 0
         THEN Async("false", v, <<>>, <<>>)
         ELSE AssignAndNotify(v, PercentOf(percentage, v.duration))

SeekResume(kind, arg, v, metadataReady) ==
    CASE kind = "forward"  -> seekForwardResume(v, arg, metadataReady)
      [] kind = "backward" -> seekBackwardResume(v, arg, metadataReady)
      [] OTHER             -> seekToPercentageResume(v, arg, metadataReady)

\* a seek left waiting inside waitForVideoMetadata
Waiting(kind, arg) ==
    [kind |-> kind, arg |-> arg, startTime |-> now,
     lastCurrentTime |-> video.currentTime]

\* the common head of seekForward, seekBackward and seekToPercentage
SeekStart(kind, arg) ==
    IF ~canSeek THEN Async("false", video, <<>>, <<>>)
    ELSE IF waitForVideoMetadata(video) THEN SeekResume(kind, arg, video, TRUE)
    ELSE Outcome("promise", "pending", video, dom, <<>>, <<>>,
                 <<Waiting(kind, arg)>>)

seekForward(amount) == SeekStart("forward", amount)

seekBackward(amount) == SeekStart("backward", amount)

seekToPercentage(percentage) == SeekStart("percentage", percentage)

\* seek amounts that ignore the stored setting
getSeekAmountsDefault ==
    [arrow |-> DefaultSeekAmount, extended |-> DefaultSeekAmount * 2]

\* ConfigManager.getSeekAmounts
getSeekAmounts == [arrow |-> settings.seekAmount, extended |-> settings.seekAmount * 2]

seekForwardExtended == seekForward(getSeekAmounts.extended)

seekBackwardExtended == seekBackward(getSeekAmounts.extended)

(***************************************************************************)
(* KeyboardHandler.  A keyboard event is a record: code and key as the     *)
(* browser reports them ("" for an unavailable code), modifier for         *)
(* ctrlKey || altKey || metaKey, inInput for a focused text-input-like     *)
(* element.  What the handler does to the event is a sequence of calls.    *)
(***************************************************************************)
KeyEvent(code, key, modifier, inInput) ==
    [code |-> code, key |-> key, modifier |-> modifier, inInput |-> inInput]

\* a plain press of the physical key: no modifier, focus outside any input
Press(code) == KeyEvent(code, code, FALSE, FALSE)

Suppress == <<"preventDefault", "stopPropagation">>

getKeyIdentifier(event) == IF event.code # "" THEN event.code ELSE event.key

\* shouldHandleKey without the player requirement on other hosts
shouldHandleKeyAnywhere(event) ==
    IF event.modifier THEN FALSE
    ELSE IF event.inInput THEN FALSE
    ELSE IF IsSupportedPlatform(hostname) THEN domVideo
    ELSE TRUE

shouldHandleKey(event) ==
    IF event.modifier THEN FALSE
    ELSE IF event.inInput THEN FALSE
    ELSE IF IsSupportedPlatform(hostname) THEN domVideo
    ELSE currentPlayer

preventParamountConflicts(key) ==
    IF /\ key \in {"Space", "ArrowLeft", "ArrowRight", "ArrowUp", "ArrowDown",
                   "KeyJ", "KeyL", "KeyK", "KeyM", "KeyF", "KeyC"}
       /\ key \in DOMAIN keyMappings
       /\ ~keyMappings[key].platformHandled
    THEN Suppress
    ELSE <<>>

preventHuluConflicts(key) ==
    IF /\ key \in {"ArrowLeft", "ArrowRight", "ArrowUp", "ArrowDown",
                   "KeyJ", "KeyL", "KeyK", "KeyM", "KeyF", "KeyC"}
       /\ key \in DOMAIN keyMappings
       /\ ~keyMappings[key].platformHandled
    THEN Suppress \o <<"stopImmediatePropagation">>
    ELSE <<>>

\* No media action changes isEnabled, the focus, the page's video elements,
\* the player handle or the table, so the call made after the action sees
\* what the call made before it would see.
preventPlatformConflicts(event) ==
    IF ~isEnabled \/ ~shouldHandleKey(event) THEN <<>>
    ELSE LET key == getKeyIdentifier(event)
             platformConfig == GetPlatformConfig(hostname)
         IN  (IF key \in DOMAIN keyMappings /\ keyMappings[key].preventDefault
              THEN Suppress ELSE <<>>)
             \o
             (IF platformConfig.present /\ platformConfig.needsConflictPrevention
              THEN IF HostIncludes(hostname, "paramountplus.com")
                       THEN preventParamountConflicts(key)
                   ELSE IF HostIncludes(hostname, "hulu.com")
                       THEN preventHuluConflicts(key)
                   ELSE <<>>
              ELSE <<>>)

\* the methods of MediaController a mapping's action name can resolve to
ActionNames == {"seekBackward", "seekForward", "seekBackwardExtended",
                "seekForwardExtended", "seekToPercentage", "volumeUp",
                "volumeDown", "toggleMute", "togglePlayPause",
                "showPlayPauseNotification", "toggleCaptions", "toggleFullscreen"}

\* the argument of a call made with the mapping's params: the first one, or
\* the default the method takes for a missing argument
Arg(mapping, default) ==
    IF Len(mapping.params) > 0 THEN mapping.params[1] ELSE default

\* this.mediaController[action](...params); env tells what the browser does
\* with a play() and a fullscreen request
Invoke(mapping, env) ==
    CASE mapping.action = "seekForward" ->
            seekForward(Arg(mapping, getSeekAmounts.arrow))
      [] mapping.action = "seekBackward" ->
            seekBackward(Arg(mapping, getSeekAmounts.arrow))
      [] mapping.action = "seekForwardExtended" -> seekForwardExtended
      [] mapping.action = "seekBackwardExtended" -> seekBackwardExtended
      [] mapping.action = "seekToPercentage" ->
            seekToPercentage(Arg(mapping, 0))
      [] mapping.action = "volumeUp" -> volumeUp(Arg(mapping, settings.volumeStep))
      [] mapping.action = "volumeDown" -> volumeDown(Arg(mapping, settings.volumeStep))
      [] mapping.action = "toggleMute" -> toggleMute
      [] mapping.action = "togglePlayPause" -> togglePlayPause(env.playAllowed)
      [] mapping.action = "showPlayPauseNotification" -> showPlayPauseNotification
      [] mapping.action = "toggleCaptions" -> toggleCaptions
      [] mapping.action = "toggleFullscreen" -> toggleFullscreen(env.fullscreen)
      [] OTHER -> Outcome("none", "none", video, dom, <<>>, <<>>, <<>>)

\* an executeAction that suppresses only on a result that is already true
executeActionOnResult(mapping, out) ==
    IF mapping.action \notin ActionNames THEN <<>>
    ELSE <<"action">> \o
         (IF out.ret = "true" /\ ~mapping.platformHandled THEN Suppress ELSE <<>>)

\* the calls executeAction makes, given what the action returned
executeAction(mapping, out) ==
    IF mapping.action \notin ActionNames THEN <<>>
    ELSE <<"action">> \o
         (IF out.ret = "promise"
          THEN IF ~mapping.platformHandled /\ IsSeekAction(mapping.action)
               THEN Suppress ELSE <<>>
          ELSE IF out.ret = "true" /\ ~mapping.platformHandled
               THEN Suppress ELSE <<>>)

\* every host taken for an aggressive one
isAggressiveEverywhere == TRUE

isAggressivePlatform == HostIncludes(hostname, "hulu.com")

\* the repeat check of handleKeyDown
IsRepeat(key) == key \in pressedKeys /\ now - lastKeyTime < keyRepeatDelay

\* the event passes every early return of handleKeyDown
Accepts(event) ==
    /\ isEnabled
    /\ shouldHandleKey(event)
    /\ getKeyIdentifier(event) \in DOMAIN keyMappings
    /\ ~IsRepeat(getKeyIdentifier(event))

\* What handleKeyDown does with an event: whether it accepts it, the calls
\* it makes in order, and the outcome of the action it invokes.
handleKeyDown(event, env) ==
    IF ~Accepts(event)
    THEN [accepted |-> FALSE, calls |-> <<>>,
          out |-> Outcome("none", "none", video, dom, <<>>, <<>>, <<>>)]
    ELSE LET mapping == keyMappings[getKeyIdentifier(event)]
             platformConfig == GetPlatformConfig(hostname)
             out == Invoke(mapping, env)
         IN  [accepted |-> TRUE,
              calls |-> (IF /\ isAggressivePlatform
                            /\ platformConfig.present
                            /\ platformConfig.needsConflictPrevention
                         THEN preventPlatformConflicts(event) ELSE <<>>)
                        \o executeAction(mapping, out)
                        \o (IF ~isAggressivePlatform
                            THEN preventPlatformConflicts(event) ELSE <<>>),
              out |-> out]

(***************************************************************************)
(* States after construction.                                              *)
(***************************************************************************)
\* ConfigManager.defaultSettings
defaultSettings ==
    [seekAmount |-> DefaultSeekAmount, volumeStep |-> DefaultVolumeStep,
     enableNotifications |-> TRUE, enableVolumeControl |-> TRUE,
     enablePlaybackControl |-> TRUE]

\* a media element with its metadata loaded and one caption track
LoadedVideo(duration, currentTime) ==
    [durKind |-> "finite", duration |-> duration, currentTime |-> currentTime,
     volume |-> 90, muted |-> FALSE, paused |-> FALSE, readyState |-> 4,
     error |-> FALSE, textTracks |-> <<"disabled">>]

\* a media element that has not loaded anything yet: duration is NaN
EmptyVideo ==
    [durKind |-> "NaN", duration |-> 0, currentTime |-> 0,
     volume |-> 100, muted |-> FALSE, paused |-> TRUE, readyState |-> 0,
     error |-> FALSE, textTracks |-> <<>>]

\* a live stream whose data has not arrived: duration is Infinity
LiveVideo ==
    [durKind |-> "Inf", duration |-> 0, currentTime |-> 0,
     volume |-> 50, muted |-> FALSE, paused |-> TRUE, readyState |-> 0,
     error |-> FALSE, textTracks |-> <<>>]

\* a page without the site controls the Hulu fallbacks look for
BarePage ==
    [forwardButton |-> FALSE, rewindButton |-> FALSE, seekBar |-> FALSE,
     captionsButton |-> FALSE, fullscreen |-> FALSE, notifier |-> TRUE]

NoEvent == [code |-> "", accepted |-> FALSE, calls |-> <<>>]

NoShortcut ==
    [pressed |-> FALSE, clicks |-> 0, suppressed |-> 0, visible |-> FALSE,
     initialized |-> FALSE, armed |-> FALSE]

\* no platform integration was constructed
NoPlatform ==
    /\ skipButton = "absent"
    /\ skipListeners = [live |-> 0, stale |-> 0]
    /\ skipPolling = FALSE
    /\ platformInitialized = FALSE
    /\ shortcut = NoShortcut

\* the runs leave the PlayerDetector out: its reports arrive as
\* handlePlayerChange calls and the page's video is domVideo
NoDetector ==
    /\ page = <<>>
    /\ detected = "null"
    /\ notices = <<>>
    /\ scanDue = FALSE

\* SeekerNotification after its constructor: enabled, container empty.
\* Notification elements are numbered in the order show() creates them;
\* current is this.currentNotification (0 for null), hiding the element
\* that carries the class 'hide', hideTimeout whether the auto-hide timer is
\* armed, removals the number of pending 300 ms removal timers of hide().
NoNotification ==
    [isEnabled |-> TRUE, container |-> {}, current |-> 0, hiding |-> 0,
     hideTimeout |-> FALSE, removals |-> 0, created |-> 0]

\* the storage has no seekerSettings entry and has told loadSettings so
NoStorage ==
    /\ stored = <<>>
    /\ loadReply = [read |-> TRUE, value |-> <<>>]

\* no waitForVideoMetadata call has been made
NoWait ==
    [called |-> FALSE, listeners |-> {}, resolved |-> FALSE, results |-> <<>>,
     frames |-> 0, startTime |-> 0, lastCurrentTime |-> 0]

NoOp ==
    [op |-> "none", params |-> <<>>, ret |-> "none", res |-> "none",
     wrote |-> <<>>, clicked |-> <<>>, escaped |-> "none",
     durKind |-> "NaN", duration |-> 0]

\* site policies of the runs: a supported site with and without active
\* conflict prevention, the generic policy for any other host
SitePolicies ==
    {<<"www.hulu.com", TRUE>>, <<"www.hulu.com", FALSE>>,
     <<"www.paramountplus.com", TRUE>>, <<"example.com", FALSE>>}

\* the start-up sequence has completed: the handler is constructed, its
\* listener is bound and one URL watcher polls
Started ==
    /\ keyboardHandler = TRUE
    /\ isEnabled = TRUE
    /\ pressedKeys = {}
    /\ lastKeyTime = 0
    /\ keyMappings = initializeKeyMappings
    /\ phase = "ready"
    /\ retryCount = 0
    /\ retryDelay = 0
    /\ giveUpLogs = 0
    /\ configAvailable = TRUE
    /\ configLoaded = TRUE
    /\ isInitialized = TRUE
    /\ listeners = 1
    /\ urlWatchers = 1
    /\ urlNotices = 0
    /\ reinitTimers = 0
    /\ initTimers = 0
    /\ userEnabled = TRUE

\* initializePlatformIntegration has returned without an integration
Running ==
    /\ Started
    /\ platformIntegration = "null"
    /\ NoPlatform
    /\ NoDetector
    /\ sink = NoNotification
    /\ NoStorage
    /\ wait = NoWait

\* the page as the handler first sees it, on one of the sites, with one of
\* the media elements
InitOn(sites, videos) ==
    /\ \E site \in sites : hostname = site[1] /\ conflictPolicy = site[2]
    /\ domVideo \in BOOLEAN
    /\ dom = BarePage
    /\ currentPlayer = FALSE
    /\ video \in videos
    /\ settings = defaultSettings
    /\ Running
    /\ now = keyRepeatDelay
    /\ evt = NoEvent
    /\ pendingSeek = <<>>
    /\ lastOp = NoOp
    /\ muteRun = [n |-> 0, origin |-> FALSE]
    /\ apiCalls = 0

Init == InitOn(SitePolicies, {LoadedVideo(200, 2)})

\* skipForward and skipBackward: the handle's next / previous control is
\* clicked when the handle has one, otherwise a 30 s seek
skipForward(nextButton) ==
    IF currentPlayer /\ nextButton
    THEN Outcome("true", "true", video, dom, <<>>, <<"nextButton">>, <<>>)
    ELSE seekForward(30)

skipBackward(prevButton) ==
    IF currentPlayer /\ prevButton
    THEN Outcome("true", "true", video, dom, <<>>, <<"prevButton">>, <<>>)
    ELSE seekBackward(30)

(***************************************************************************)
(* Keyboard arbitration: the events and calls that reach a constructed     *)
(* KeyboardHandler.                                                        *)
(***************************************************************************)
\* what the browser does with a play() and with a fullscreen request
Envs ==
    {[playAllowed |-> TRUE, fullscreen |-> "granted"],
     [playAllowed |-> FALSE, fullscreen |-> "rejected"],
     [playAllowed |-> TRUE, fullscreen |-> "throws"]}

\* the keyboard events of the runs: presses of a toggle key, a digit key
\* and a key that has no default entry, a press with a modifier held and a
\* press while a text input has the focus
KeyEvents ==
    {Press(c) : c \in {"KeyM", "Digit5", "KeyP"}}
    \cup {KeyEvent("KeyM", "m", TRUE, FALSE), KeyEvent("KeyM", "m", FALSE, TRUE)}

\* entries a caller of addKeyMapping installs in the runs
CustomMappings ==
    {<<"KeyP", Entry("toggleMute", <<>>, TRUE, TRUE)>>,
     <<"KeyP", Entry("toggleMute", <<>>, TRUE, FALSE)>>}

\* what the last dispatched keydown underwent
Dispatched(event, r) ==
    [code |-> getKeyIdentifier(event), accepted |-> r.accepted, calls |-> r.calls]

\* a keydown event nothing listens to
Unheard ==
    [accepted |-> FALSE, calls |-> <<>>,
     out |-> Outcome("none", "none", video, dom, <<>>, <<>>, <<>>)]

\* the document dispatches a keydown event: to handleKeyDown, once a
\* KeyboardHandler is constructed and has bound it
KeyDown(event, env) ==
    /\ LET r == IF keyboardHandler THEN handleKeyDown(event, env) ELSE Unheard
           key == getKeyIdentifier(event)
       IN  /\ r.accepted => Cardinality(pressedKeys \cup {key}) <= MaxPressed
           /\ Len(pendingSeek) + Len(r.out.pend) <= MaxPending
           /\ pressedKeys' = IF r.accepted THEN pressedKeys \cup {key} ELSE pressedKeys
           /\ lastKeyTime' = IF r.accepted THEN now ELSE lastKeyTime
           /\ video' = r.out.video
           /\ dom' = r.out.dom
           /\ pendingSeek' = pendingSeek \o r.out.pend
           /\ evt' = Dispatched(event, r)
    /\ UNCHANGED <<siteVars, domVideo, currentPlayer, settings, keyboardHandler,
                   isEnabled, keyMappings, now, execVars, startupVars, pipelineVars, platformVars, detectorVars, waitVars, storageVars, sinkVars>>

\* the document dispatches a keyup event to handleKeyUp
KeyUp(event) ==
    /\ keyboardHandler
    /\ getKeyIdentifier(event) \in pressedKeys
    /\ pressedKeys' = pressedKeys \ {getKeyIdentifier(event)}
    /\ UNCHANGED <<siteVars, pageVars, currentPlayer, video, settings,
                   keyboardHandler, isEnabled, lastKeyTime, keyMappings, now, evt,
                   pendingSeek, execVars, startupVars, pipelineVars, platformVars, detectorVars, waitVars, storageVars, sinkVars>>

enable ==
    /\ keyboardHandler
    /\ isEnabled' = TRUE
    /\ UNCHANGED <<siteVars, pageVars, currentPlayer, video, settings,
                   keyboardHandler, pressedKeys, lastKeyTime, keyMappings, now, evt,
                   pendingSeek, execVars, startupVars, pipelineVars, platformVars, detectorVars, waitVars, storageVars, sinkVars>>

disable ==
    /\ keyboardHandler
    /\ isEnabled' = FALSE
    /\ pressedKeys' = {}
    /\ UNCHANGED <<siteVars, pageVars, currentPlayer, video, settings,
                   keyboardHandler, lastKeyTime, keyMappings, now, evt,
                   pendingSeek, execVars, startupVars, pipelineVars, platformVars, detectorVars, waitVars, storageVars, sinkVars>>

addKeyMapping(key, mapping) ==
    /\ keyboardHandler
    /\ keyMappings' = [k \in DOMAIN keyMappings \cup {key} |->
                          IF k = key THEN mapping ELSE keyMappings[k]]
    /\ UNCHANGED <<siteVars, pageVars, currentPlayer, video, settings,
                   keyboardHandler, isEnabled, pressedKeys, lastKeyTime, now, evt,
                   pendingSeek, execVars, startupVars, pipelineVars, platformVars, detectorVars, waitVars, storageVars, sinkVars>>

removeKeyMapping(key) ==
    /\ keyboardHandler
    /\ key \in DOMAIN keyMappings
    /\ keyMappings' = [k \in DOMAIN keyMappings \ {key} |-> keyMappings[k]]
    /\ UNCHANGED <<siteVars, pageVars, currentPlayer, video, settings,
                   keyboardHandler, isEnabled, pressedKeys, lastKeyTime, now, evt,
                   pendingSeek, execVars, startupVars, pipelineVars, platformVars, detectorVars, waitVars, storageVars, sinkVars>>

\* SeekerExtension.handlePlayerChange with the handle the detector found for
\* a video element of the page, or with null when it found none
handlePlayerChange(player) ==
    /\ keyboardHandler
    /\ player => domVideo
    /\ currentPlayer' = player
    /\ isEnabled' = IF player THEN TRUE ELSE isEnabled
    /\ UNCHANGED <<siteVars, pageVars, video, settings, keyboardHandler,
                   pressedKeys, lastKeyTime, keyMappings, now, evt,
                   pendingSeek, execVars, startupVars, pipelineVars, platformVars, detectorVars, waitVars, storageVars, sinkVars>>

\* the page inserts or removes its video element
PageVideoChange ==
    /\ domVideo' = ~domVideo
    /\ UNCHANGED <<siteVars, dom, currentPlayer, video, settings, handlerVars,
                   now, evt, pendingSeek, execVars, startupVars, pipelineVars, platformVars, detectorVars, waitVars, storageVars, sinkVars>>

\* time passes
Tick(dt, horizon) ==
    /\ now + dt <= horizon
    /\ now' = now + dt
    /\ UNCHANGED <<siteVars, pageVars, currentPlayer, video, settings,
                   handlerVars, evt, pendingSeek, execVars, startupVars, pipelineVars, platformVars, detectorVars, waitVars, storageVars, sinkVars>>

Next ==
    \/ \E event \in KeyEvents, env \in Envs : KeyDown(event, env)
    \/ \E event \in KeyEvents : KeyUp(event)
    \/ enable
    \/ disable
    \/ \E m \in CustomMappings : addKeyMapping(m[1], m[2])
    \/ removeKeyMapping("KeyP")
    \/ \E player \in BOOLEAN : handlePlayerChange(player)
    \/ PageVideoChange
    \/ \E dt \in {100, 150} : Tick(dt, MaxTime)

Spec == Init /\ [][Next]_vars

(***************************************************************************)
(* Properties of the keyboard arbitration.                                 *)
(***************************************************************************)
Suppressions == {"preventDefault", "stopPropagation", "stopImmediatePropagation"}

Calls(seq) == {seq[i] : i \in 1..Len(seq)}

\* the first preventDefault of the sequence precedes the action
SuppressedFirst(seq) ==
    \E i \in 1..Len(seq) :
        /\ seq[i] = "preventDefault"
        /\ \A j \in 1..i : seq[j] # "action"

\* the action precedes every suppression call of the sequence
ActionFirst(seq) ==
    \A i \in 1..Len(seq) :
        seq[i] \in Suppressions => \E j \in 1..(i - 1) : seq[j] = "action"

\* every way a keydown can carry the key identifier
EventsOf(key) ==
    {KeyEvent(key, key, m, f) : m \in BOOLEAN, f \in BOOLEAN}
    \cup {KeyEvent("", key, FALSE, FALSE)}

\* C3: two keydowns of the same key less than the re-trigger interval apart
\* execute exactly one action, whatever happens in between: once a keydown
\* of a key has executed its action, a keydown of that key arriving less
\* than 150 ms later executes none.
C3_DebounceOneAction ==
    [][ (/\ evt.accepted
         /\ "action" \in Calls(evt.calls)
         /\ now - lastKeyTime < keyRepeatDelay)
        => ~(/\ evt.code \in pressedKeys' \ pressedKeys
             /\ evt'.code = evt.code
             /\ "action" \in Calls(evt'.calls)) ]_vars

\* the keys C4 names: arrows, J, K, L, M, C, F and the digits
C4Keys ==
    {"ArrowLeft", "ArrowRight", "ArrowUp", "ArrowDown", "KeyJ", "KeyK", "KeyL",
     "KeyM", "KeyC", "KeyF"} \cup DigitKeySet

\* C4: on Hulu, with conflict prevention configured, an accepted keydown of a
\* mapped key that is not platform-handled has its first preventDefault
\* called before the mapped action is invoked.
C4_HuluSuppressesFirst ==
    (/\ HostIncludes(hostname, "hulu.com")
     /\ conflictPolicy
     /\ evt.accepted
     /\ evt.code \in C4Keys)
    => SuppressedFirst(evt.calls)

\* C5: on a host other than Hulu, every keydown of a mapped key that the
\* handler accepts has its action invoked before any preventDefault,
\* stopPropagation or stopImmediatePropagation call of the handler.
C5_ActionBeforeSuppression ==
    ~HostIncludes(hostname, "hulu.com") =>
        \A key \in DOMAIN keyMappings : \A event \in EventsOf(key), env \in Envs :
            handleKeyDown(event, env).accepted
                => ActionFirst(handleKeyDown(event, env).calls)

C5_Witness ==
    /\ ~HostIncludes(hostname, "hulu.com")
    /\ evt.accepted
    /\ evt.code = "KeyM"
    /\ evt.calls = <<"action", "preventDefault", "stopPropagation",
                     "preventDefault", "stopPropagation">>

\* C6: a keydown of a key whose entry is platform-handled never has
\* preventDefault or stopPropagation called on it.
C6_PlatformHandledUntouched ==
    (/\ evt.code \in DOMAIN keyMappings
     /\ keyMappings[evt.code].platformHandled)
    => Calls(evt.calls) \cap Suppressions = {}

DigitEvents == {Press(c) : c \in {"Digit0", "Digit5", "Digit9"}}

InitDigits ==
    InitOn({<<"www.hulu.com", TRUE>>, <<"example.com", FALSE>>},
           {LoadedVideo(200, 2), LoadedVideo(60, 2), EmptyVideo})

NextDigits ==
    \/ \E event \in DigitEvents, env \in Envs : KeyDown(event, env)
    \/ \E event \in DigitEvents : KeyUp(event)
    \/ \E player \in BOOLEAN : handlePlayerChange(player)
    \/ Tick(keyRepeatDelay, MaxTime)

SpecDigits == InitDigits /\ [][NextDigits]_vars

\* C10 as stated: once a keydown of Digit<d> is accepted while the video has
\* a finite positive duration D, the video's position is (10 d / 100) D.
C10_DigitSetsPosition ==
    (evt.accepted /\ evt.code \in DigitKeySet /\ MetadataAvailable(video))
    => video.currentTime = (10 * DigitOf(evt.code) * video.duration) \div 100

\* C10 amended: for every digit d, while a player handle is current and its
\* video has a finite positive duration D, an accepted keydown of Digit<d>
\* assigns (10 d / 100) D and leaves the video at that position.
C10_DigitSetsPositionOfPlayer ==
    \A d \in 0..9 : \A env \in Envs :
        LET r == handleKeyDown(Press(DigitCodes[d + 1]), env)
            target == (10 * d * video.duration) \div 100
        IN  (currentPlayer /\ MetadataAvailable(video) /\ r.accepted)
            => /\ r.out.wrote = <<W(target)>>
               /\ r.out.video.currentTime = target
               /\ r.out.res = "true"

C10_Witness ==
    /\ currentPlayer
    /\ evt.accepted
    /\ evt.code = "Digit5"
    /\ video.duration = 200
    /\ video.currentTime = 100

(***************************************************************************)
(* The media action executor called directly: MediaController's methods,   *)
(* the settings they read, and the seeks they leave waiting for metadata.  *)
(***************************************************************************)
\* the calls of the runs: a method name and the arguments passed
ExecCalls ==
    {<<"seekForward", <<>>>>, <<"seekForward", <<-5>>>>,
     <<"seekBackward", <<>>>>,
     <<"seekForwardExtended", <<>>>>, <<"seekBackwardExtended", <<>>>>,
     <<"seekToPercentage", <<50>>>>, <<"seekToPercentage", <<150>>>>,
     <<"volumeUp", <<>>>>,
     <<"volumeDown", <<>>>>, <<"volumeDown", <<-30>>>>,
     <<"toggleMute", <<>>>>, <<"togglePlayPause", <<>>>>,
     <<"showPlayPauseNotification", <<>>>>, <<"toggleCaptions", <<>>>>,
     <<"toggleFullscreen", <<>>>>}

\* the settings the runs write through ConfigManager.set
SettingWrites ==
    {<<"seekAmount", 30>>, <<"volumeStep", 150>>, <<"enableVolumeControl", FALSE>>}

\* pages of the executor runs: without site controls, with Hulu's touch
\* controls, with a progress bar only
ExecPages ==
    {BarePage,
     [BarePage EXCEPT !.forwardButton = TRUE, !.rewindButton = TRUE],
     [BarePage EXCEPT !.seekBar = TRUE]}

\* the record of a finished or suspended call
Finished(op, params, out) ==
    [op |-> op, params |-> params, ret |-> out.ret, res |-> out.res,
     wrote |-> out.wrote, clicked |-> out.clicked, escaped |-> out.escaped,
     durKind |-> out.video.durKind, duration |-> out.video.duration]

\* toggleMute invocations in a row on a connected player with volume
\* control enabled, and the muted flag the row started from
MuteRunAfter(op) ==
    IF op = "toggleMute" /\ canControlVolume
    THEN IF muteRun.n = 1
         THEN [n |-> 2, origin |-> muteRun.origin]
         ELSE [n |-> 1, origin |-> video.muted]
    ELSE [n |-> 0, origin |-> FALSE]

\* a caller invokes a MediaController method
Call(op, params, env) ==
    /\ apiCalls < MaxCalls
    /\ LET out == Invoke(Entry(op, params, FALSE, FALSE), env)
       IN  /\ Len(pendingSeek) + Len(out.pend) <= MaxPending
           /\ video' = out.video
           /\ dom' = out.dom
           /\ pendingSeek' = pendingSeek \o out.pend
           /\ lastOp' = Finished(op, params, out)
    /\ muteRun' = MuteRunAfter(op)
    /\ apiCalls' = apiCalls + 1
    /\ UNCHANGED <<siteVars, domVideo, currentPlayer, settings, handlerVars, now,
                   evt, startupVars, pipelineVars, platformVars, detectorVars, waitVars, storageVars, sinkVars>>

\* ConfigManager.set
set(key, value) ==
    /\ apiCalls < MaxCalls
    /\ settings' = [settings EXCEPT ![key] = value]
    /\ stored' = <<settings'>>
    /\ muteRun' = [n |-> 0, origin |-> FALSE]
    /\ apiCalls' = apiCalls + 1
    /\ UNCHANGED <<siteVars, pageVars, currentPlayer, video, handlerVars, now,
                   evt, pendingSeek, lastOp, startupVars, pipelineVars, platformVars,
                   detectorVars, waitVars, loadReply, sinkVars>>

SeekOpOf(kind) ==
    CASE kind = "forward" -> "seekForward"
      [] kind = "backward" -> "seekBackward"
      [] OTHER -> "seekToPercentage"

\* waitForVideoMetadata answers the waiting seek, which runs to its end on
\* the element as it is then (v)
Settle(v, metadataReady) ==
    LET p == Head(pendingSeek)
        out == SeekResume(p.kind, p.arg, v, metadataReady)
    IN  /\ video' = out.video
        /\ dom' = out.dom
        /\ pendingSeek' = Tail(pendingSeek)
        /\ lastOp' = Finished(SeekOpOf(p.kind), <<p.arg>>, out)

\* the animation-frame poll of waitForVideoMetadata
checkMetadata ==
    /\ pendingSeek # <<>>
    /\ IF MetadataAvailable(video)
           THEN Settle(video, TRUE)
       ELSE IF /\ IsHulu
               /\ \/ video.readyState >= 2
                  \/ video.currentTime # Head(pendingSeek).lastCurrentTime
           THEN Settle(video, TRUE)
       ELSE IF now - Head(pendingSeek).startTime > MetadataTimeout
           THEN Settle(video, FALSE)
       ELSE UNCHANGED <<video, dom, pendingSeek, lastOp>>
    /\ UNCHANGED <<siteVars, domVideo, currentPlayer, settings, handlerVars, now,
                   evt, muteRun, apiCalls, startupVars, pipelineVars, platformVars, detectorVars, waitVars, storageVars, sinkVars>>

\* the element fires loadedmetadata or canplay while a seek waits: its
\* duration is known (200 s or, for a live stream, Infinity) and its
\* readyState has risen; onLoadedMetadata runs
onLoadedMetadata(durKind, readyState) ==
    /\ pendingSeek # <<>>
    /\ ~video.error
    /\ video.readyState < readyState
    /\ LET v == [video EXCEPT !.durKind = durKind,
                              !.duration = IF durKind = "finite" THEN 200 ELSE 0,
                              !.readyState = readyState]
       IN  IF MetadataAvailable(v)
           THEN Settle(v, TRUE)
           ELSE video' = v /\ UNCHANGED <<dom, pendingSeek, lastOp>>
    /\ UNCHANGED <<siteVars, domVideo, currentPlayer, settings, handlerVars, now,
                   evt, muteRun, apiCalls, startupVars, pipelineVars, platformVars, detectorVars, waitVars, storageVars, sinkVars>>

\* the element fires timeupdate while a seek waits: onTimeUpdate runs
onTimeUpdate ==
    /\ pendingSeek # <<>>
    /\ video.readyState >= 1
    /\ video.currentTime = Head(pendingSeek).lastCurrentTime
    /\ LET v == [video EXCEPT !.currentTime = video.currentTime + 1]
       IN  IF IsHulu
           THEN Settle(v, TRUE)
           ELSE video' = v /\ UNCHANGED <<dom, pendingSeek, lastOp>>
    /\ UNCHANGED <<siteVars, domVideo, currentPlayer, settings, handlerVars, now,
                   evt, muteRun, apiCalls, startupVars, pipelineVars, platformVars, detectorVars, waitVars, storageVars, sinkVars>>

\* the element fires error while a seek waits: onError runs
onError ==
    /\ pendingSeek # <<>>
    /\ ~video.error
    /\ Settle([video EXCEPT !.error = TRUE], FALSE)
    /\ UNCHANGED <<siteVars, domVideo, currentPlayer, settings, handlerVars, now,
                   evt, muteRun, apiCalls, startupVars, pipelineVars, platformVars, detectorVars, waitVars, storageVars, sinkVars>>

\* the detector reports a player change while a seek waits
WaitPlayerChange(player) == pendingSeek # <<>> /\ handlePlayerChange(player)

\* time passes while a seek waits
WaitTick == pendingSeek # <<>> /\ Tick(1500, MaxExecTime)

\* the executor over media whose metadata is loaded: every call runs to
\* its end at once
InitExec ==
    /\ \E h \in {"www.hulu.com", "example.com"} :
           hostname = h /\ conflictPolicy = IsSupportedPlatform(h)
    /\ domVideo = TRUE
    /\ dom = BarePage
    /\ currentPlayer \in BOOLEAN
    /\ video \in {LoadedVideo(200, 2), LoadedVideo(200, 198)}
    /\ settings = defaultSettings
    /\ Running
    /\ now = keyRepeatDelay
    /\ evt = NoEvent
    /\ pendingSeek = <<>>
    /\ lastOp = NoOp
    /\ muteRun = [n |-> 0, origin |-> FALSE]
    /\ apiCalls = 0

NextExec ==
    \/ \E c \in ExecCalls, env \in Envs : Call(c[1], c[2], env)
    \/ \E w \in SettingWrites : set(w[1], w[2])
    \/ \E player \in BOOLEAN : handlePlayerChange(player)

SpecExec == InitExec /\ [][NextExec]_vars

\* the seek calls of the waiting runs
WaitCalls ==
    {c \in ExecCalls : c[1] \in {"seekForward", "seekBackward", "seekToPercentage"}}

\* the executor over a live stream whose data has not arrived, where seeks
\* wait for metadata, and over an element whose duration is NaN
InitWait ==
    /\ \E h \in {"www.hulu.com", "example.com"} :
           hostname = h /\ conflictPolicy = IsSupportedPlatform(h)
    /\ domVideo = TRUE
    /\ dom \in (IF IsHulu THEN ExecPages ELSE {BarePage})
    /\ currentPlayer = TRUE
    /\ video \in {LiveVideo, EmptyVideo}
    /\ settings = defaultSettings
    /\ Running
    /\ now = keyRepeatDelay
    /\ evt = NoEvent
    /\ pendingSeek = <<>>
    /\ lastOp = NoOp
    /\ muteRun = [n |-> 0, origin |-> FALSE]
    /\ apiCalls = 0

NextWait ==
    \/ \E c \in WaitCalls, env \in Envs : Call(c[1], c[2], env)
    \/ \E player \in BOOLEAN : WaitPlayerChange(player)
    \/ checkMetadata
    \/ \E durKind \in {"finite", "Inf"}, readyState \in {1, 3} :
           onLoadedMetadata(durKind, readyState)
    \/ onTimeUpdate
    \/ onError
    \/ WaitTick

SpecWait == InitWait /\ [][NextWait]_vars

(***************************************************************************)
(* The platform integrations' skip shortcut.  ParamountPlatform adds a     *)
(* keydown listener at every poll that finds the button and removes the    *)
(* listeners of a button when that button becomes disabled or hidden;      *)
(* HuluPlatform keeps at most one listener, which looks the button up      *)
(* again at the key press.                                                 *)
(***************************************************************************)
\* checkForSkipButton of the integration `name`: the S listeners on the
\* document after it has run.  live counts the listeners bound to the skip
\* button now in the document, stale the listeners bound to buttons that
\* were removed from it
checkForSkipButton(name) ==
    IF skipButton # "visible" THEN skipListeners
    ELSE IF name = "Paramount+" THEN [skipListeners EXCEPT !.live = @ + 1]
    ELSE [skipListeners EXCEPT !.live = 1]

\* initialize() of the integration just constructed: the skip handler is
\* set up, which checks for the button at once and starts the 2 s poll
PlatformInitialize(name) ==
    /\ platformInitialized' = TRUE
    /\ skipPolling' = TRUE
    /\ skipListeners' = checkForSkipButton(name)
    /\ UNCHANGED <<skipButton, shortcut>>

\* cleanup() of the integration: HuluPlatform removes its _skipHandler,
\* ParamountPlatform removes no S listener; neither clears the poll
PlatformCleanup ==
    /\ platformInitialized' = FALSE
    /\ skipListeners' = IF platformIntegration = "Hulu"
                        THEN [live |-> 0, stale |-> 0]
                        ELSE skipListeners
    /\ UNCHANGED <<skipButton, skipPolling, shortcut>>

(***************************************************************************)
(* SeekerExtension's platform integration and status.                      *)
(***************************************************************************)
\* SeekerExtension.config: the constructor and the methods assign no such
\* field, so it is undefined wherever it is read
extensionConfig == FALSE

\* the integration initializePlatformIntegration constructs, "null" when it
\* returns without constructing one
initializePlatformIntegration ==
    IF ~extensionConfig THEN "null"
    ELSE IF ~GetPlatformConfig(hostname).present THEN "null"
    ELSE IF HostIncludes(hostname, "paramountplus.com") THEN "Paramount+"
    ELSE IF HostIncludes(hostname, "hulu.com") THEN "Hulu"
    ELSE "null"

\* the features getFeatures() of an integration reports
getFeatures ==
    IF skipButton = "absent" THEN {}
    ELSE IF platformIntegration = "Hulu" THEN {"skipAds"}
    ELSE {"skipIntro"}

getStatus ==
    [initialized |-> isInitialized,
     platform |-> IF platformIntegration # "null" THEN platformIntegration
                  ELSE "Unknown",
     keyboardEnabled |-> IF keyboardHandler THEN isEnabled ELSE FALSE,
     connected |-> currentPlayer,
     features |-> IF platformIntegration # "null" THEN getFeatures ELSE {}]

(***************************************************************************)
(* SeekerExtension's start-up sequence.  phase is "starting" before the    *)
(* first initializeComponents, "waitForLoad" while ConfigManager.waitForLoad*)
(* polls, "retryScheduled" while the retry timer is armed, "gaveUp" after  *)
(* the last scheduleRetry, "ready" after a completed initializeComponents. *)
(***************************************************************************)
scheduleRetry ==
    IF retryCount >= maxRetries
    THEN /\ giveUpLogs' = giveUpLogs + 1
         /\ phase' = "gaveUp"
         /\ UNCHANGED <<retryCount, retryDelay>>
    ELSE /\ retryCount' = retryCount + 1
         /\ retryDelay' = Min(1000 * 2 ^ (retryCount + 1), 10000)
         /\ phase' = "retryScheduled"
         /\ UNCHANGED giveUpLogs

\* initializeCore: a new MediaController without a player, a new
\* KeyboardHandler with the constructor's state
initializeCore ==
    /\ keyboardHandler' = TRUE
    /\ isEnabled' = TRUE
    /\ pressedKeys' = {}
    /\ lastKeyTime' = 0
    /\ keyMappings' = initializeKeyMappings
    /\ currentPlayer' = FALSE
    /\ listeners' = listeners + 1

\* initializeComponents from the point where waitForConfig has returned:
\* the components are constructed; uiThrows tells whether initializeUI
\* throws (the notification sink's initializeFromConfig rejecting)
Construct(uiThrows) ==
    /\ initializeCore
    /\ IF initializePlatformIntegration = "null"
       THEN UNCHANGED <<platformIntegration, platformVars>>
       ELSE /\ platformIntegration' = initializePlatformIntegration
            /\ PlatformInitialize(initializePlatformIntegration)
    /\ IF uiThrows
       THEN scheduleRetry /\ UNCHANGED <<isInitialized, urlWatchers>>
       ELSE /\ isInitialized' = TRUE
            /\ retryCount' = 0
            /\ phase' = "ready"
            /\ urlWatchers' = urlWatchers + 1
            /\ UNCHANGED <<retryDelay, giveUpLogs>>
    /\ UNCHANGED <<urlNotices, userEnabled, detectorVars>>

\* initializeComponents, run at page load or by the retry timer (which
\* fires retryDelay after it was armed), up to its first wait
initializeComponents(uiThrows) ==
    /\ phase \in {"starting", "retryScheduled"}
    /\ now' = IF phase = "retryScheduled" THEN now + retryDelay ELSE now
    /\ IF ~configAvailable
           THEN /\ scheduleRetry
                /\ UNCHANGED <<handlerVars, currentPlayer, isInitialized,
                               pipelineVars, platformVars, detectorVars>>
       ELSE IF configLoaded
           THEN Construct(uiThrows) /\ UNCHANGED <<reinitTimers, initTimers>>
       ELSE /\ phase' = "waitForLoad"
            /\ UNCHANGED <<handlerVars, currentPlayer, isInitialized, retryCount,
                           retryDelay, giveUpLogs, pipelineVars, platformVars, detectorVars>>
    /\ UNCHANGED <<siteVars, pageVars, video, settings, evt, pendingSeek, execVars,
                   configAvailable, configLoaded, waitVars, storageVars, sinkVars>>

\* the 50 ms poll of ConfigManager.waitForLoad; the clock of the runs moves
\* with the retry timer only
waitForLoad(uiThrows) ==
    /\ phase = "waitForLoad"
    /\ IF configLoaded
       THEN Construct(uiThrows) /\ UNCHANGED <<reinitTimers, initTimers>>
       ELSE UNCHANGED <<handlerVars, currentPlayer, startupVars, pipelineVars,
                        platformVars, detectorVars>>
    /\ UNCHANGED <<siteVars, pageVars, video, settings, now, evt, pendingSeek,
                   execVars, configAvailable, configLoaded, waitVars, storageVars, sinkVars>>

\* the content script that defines window.SeekerConfig runs
ConfigScriptRuns ==
    /\ ~configAvailable
    /\ configAvailable' = TRUE
    /\ UNCHANGED <<siteVars, pageVars, currentPlayer, video, settings, handlerVars,
                   now, evt, pendingSeek, execVars, phase, retryCount, retryDelay,
                   giveUpLogs, configLoaded, isInitialized, pipelineVars,
                   platformVars, detectorVars, waitVars, storageVars, sinkVars>>

\* ConfigManager.loadSettings: the storage read settles
loadSettings ==
    /\ configAvailable
    /\ ~configLoaded
    /\ loadReply.read
    /\ settings' = IF loadReply.value # <<>> THEN loadReply.value[1] ELSE settings
    /\ configLoaded' = TRUE
    /\ UNCHANGED <<siteVars, pageVars, currentPlayer, video, handlerVars,
                   now, evt, pendingSeek, execVars, phase, retryCount, retryDelay,
                   giveUpLogs, configAvailable, isInitialized, pipelineVars,
                   platformVars, detectorVars, waitVars, storageVars, sinkVars>>

InitStartup ==
    /\ hostname = "example.com"
    /\ conflictPolicy = FALSE
    /\ domVideo = TRUE
    /\ dom = BarePage
    /\ currentPlayer = FALSE
    /\ video = LoadedVideo(200, 2)
    /\ settings = defaultSettings
    /\ keyboardHandler = FALSE
    /\ isEnabled = FALSE
    /\ pressedKeys = {}
    /\ lastKeyTime = 0
    /\ keyMappings = << >>
    /\ now = keyRepeatDelay
    /\ evt = NoEvent
    /\ pendingSeek = <<>>
    /\ lastOp = NoOp
    /\ muteRun = [n |-> 0, origin |-> FALSE]
    /\ apiCalls = 0
    /\ phase = "starting"
    /\ retryCount = 0
    /\ retryDelay = 0
    /\ giveUpLogs = 0
    /\ configAvailable \in BOOLEAN
    /\ configLoaded = FALSE
    /\ isInitialized = FALSE
    /\ platformIntegration = "null"
    /\ listeners = 0
    /\ urlWatchers = 0
    /\ urlNotices = 0
    /\ reinitTimers = 0
    /\ initTimers = 0
    /\ userEnabled = TRUE
    /\ NoPlatform
    /\ NoDetector
    /\ sink = NoNotification
    /\ NoStorage
    /\ wait = NoWait

StartupEvents == {Press("KeyM"), Press("Digit5")}

NextStartup ==
    \/ \E uiThrows \in BOOLEAN : initializeComponents(uiThrows)
    \/ \E uiThrows \in BOOLEAN : waitForLoad(uiThrows)
    \/ ConfigScriptRuns
    \/ loadSettings
    \/ \E player \in BOOLEAN : handlePlayerChange(player)
    \/ \E event \in StartupEvents, env \in Envs : KeyDown(event, env)
    \/ \E event \in StartupEvents : KeyUp(event)

SpecStartup == InitStartup /\ [][NextStartup]_vars

\* the event loop runs a due timer callback and a due poll
SpecStartupFair ==
    /\ SpecStartup
    /\ WF_vars(\E uiThrows \in BOOLEAN : initializeComponents(uiThrows))
    /\ WF_vars(\E uiThrows \in BOOLEAN : waitForLoad(uiThrows))

(***************************************************************************)
(* Properties of the executor and of the start-up sequence.                *)
(***************************************************************************)
SeekOps == {"seekForward", "seekBackward", "seekForwardExtended",
            "seekBackwardExtended", "seekToPercentage"}

\* C1: whatever the amount, the percentage and the starting position, every
\* value a seek action assigns to currentTime is a number in [0, duration].
C1_SeekAssignsWithinDuration ==
    lastOp.op \in SeekOps =>
        \A i \in 1..Len(lastOp.wrote) :
            /\ ~lastOp.wrote[i].nan
            /\ lastOp.wrote[i].val >= 0
            /\ lastOp.durKind = "finite" => lastOp.wrote[i].val <= lastOp.duration

\* C2: whatever the step and the starting volume, the volume volumeUp and
\* volumeDown write to the element is in [0, 1].
C2_VolumeWrittenWithinUnit ==
    lastOp.op \in {"volumeUp", "volumeDown"} =>
        \A i \in 1..Len(lastOp.wrote) :
            lastOp.wrote[i].val >= 0 /\ lastOp.wrote[i].val <= 100

\* C8: when the settings provider is missing or never finishes loading, the
\* start-up sequence is retried at most maxRetries times, no keyboard
\* handler is ever constructed, and in the end exactly one 'giving up'
\* entry is logged.
C8_GivesUpOnce ==
    /\ [](retryCount <= maxRetries /\ giveUpLogs <= 1)
    /\ []~(configAvailable /\ configLoaded)
           => /\ []~keyboardHandler
              /\ <>[](giveUpLogs = 1 /\ phase = "gaveUp")

\* C9: on a connected player with volume control enabled, one toggleMute
\* flips the muted flag and a second one in a row restores it.
C9_ToggleMuteTwiceRestores ==
    /\ muteRun.n = 1 => video.muted # muteRun.origin
    /\ muteRun.n = 2 => video.muted = muteRun.origin

C9_Witness ==
    /\ muteRun.n = 2
    /\ lastOp.op = "toggleMute"
    /\ lastOp.ret = "true"
    /\ currentPlayer
    /\ settings.enableVolumeControl

(***************************************************************************)
(* The seek keys while the seek-amount setting is rewritten.               *)
(***************************************************************************)
SeekKeyEvents == {Press("ArrowLeft"), Press("KeyL")}

\* values written to the seekAmount setting in the runs
SeekAmountWrites == {10, 30}

InitSeekKeys == InitOn({<<"example.com", FALSE>>}, {LoadedVideo(60, 2)})

NextSeekKeys ==
    \/ \E event \in SeekKeyEvents, env \in Envs : KeyDown(event, env)
    \/ \E event \in SeekKeyEvents : KeyUp(event)
    \/ \E amount \in SeekAmountWrites : set("seekAmount", amount)
    \/ \E player \in BOOLEAN : handlePlayerChange(player)
    \/ Tick(keyRepeatDelay, MaxTime)

SpecSeekKeys == InitSeekKeys /\ [][NextSeekKeys]_vars

\* the value an accepted press of the key hands to currentTime
SeekKeyWrites(code, env) == handleKeyDown(Press(code), env).out.wrote

\* C11: at every accepted press on a player with loaded metadata, ArrowRight
\* and ArrowLeft seek by the seek amount stored in the settings at that
\* moment and KeyL and KeyJ by twice that amount, each clamped on its side.
C11_SeekKeysUseStoredAmount ==
    (currentPlayer /\ MetadataAvailable(video)) =>
        \A env \in Envs :
            LET a == settings.seekAmount
                t == video.currentTime
            IN  /\ Accepts(Press("ArrowRight")) =>
                       SeekKeyWrites("ArrowRight", env) = <<W(Min(t + a, video.duration))>>
                /\ Accepts(Press("ArrowLeft")) =>
                       SeekKeyWrites("ArrowLeft", env) = <<W(Max(t - a, 0))>>
                /\ Accepts(Press("KeyL")) =>
                       SeekKeyWrites("KeyL", env) = <<W(Min(t + 2 * a, video.duration))>>
                /\ Accepts(Press("KeyJ")) =>
                       SeekKeyWrites("KeyJ", env) = <<W(Max(t - 2 * a, 0))>>

C11_Witness ==
    /\ currentPlayer
    /\ settings.seekAmount = 10
    /\ evt.accepted
    /\ evt.code = "KeyL"
    /\ video.currentTime = 22

(***************************************************************************)
(* The play/pause keys, on a supported site and on a generic one.          *)
(***************************************************************************)
PlayKeyEvents == {Press("Space"), Press("KeyK")}

InitPlayKeys ==
    InitOn({<<"www.hulu.com", TRUE>>, <<"example.com", FALSE>>},
           {LoadedVideo(200, 2)})

NextPlayKeys ==
    \/ \E event \in PlayKeyEvents, env \in Envs : KeyDown(event, env)
    \/ \E event \in PlayKeyEvents : KeyUp(event)
    \/ \E player \in BOOLEAN : handlePlayerChange(player)
    \/ Tick(keyRepeatDelay, MaxTime)

SpecPlayKeys == InitPlayKeys /\ [][NextPlayKeys]_vars

\* C12: on a host under the generic policy, an accepted Space keydown
\* leaves the video's paused flag as togglePlayPause would leave it.
C12_SpaceTogglesLikeK ==
    [][ (/\ ~IsSupportedPlatform(hostname)
         /\ "Space" \in pressedKeys' \ pressedKeys
         /\ evt'.code = "Space"
         /\ evt'.accepted)
        => \E env \in Envs :
               video'.paused = togglePlayPause(env.playAllowed).video.paused ]_vars

(***************************************************************************)
(* Keydowns the handler must ignore: the focused element is what           *)
(* document.activeElement returns, with its tagName, its contentEditable   *)
(* property and its role attribute.                                        *)
(***************************************************************************)
Element(tagName, contentEditable, role) ==
    [tagName |-> tagName, contentEditable |-> contentEditable, role |-> role]

\* element.tagName.toLowerCase()
ToLowerCase(tagName) ==
    CASE tagName = "INPUT" -> "input"
      [] tagName = "TEXTAREA" -> "textarea"
      [] tagName = "SELECT" -> "select"
      [] tagName = "DIV" -> "div"
      [] tagName = "BODY" -> "body"
      [] OTHER -> tagName

\* the tag test of isInputElement alone
isInputTag(element) ==
    ToLowerCase(element.tagName) \in {"input", "textarea", "select"}

isInputElement(element) ==
    IF ToLowerCase(element.tagName) \in {"input", "textarea", "select"} THEN TRUE
    ELSE IF element.contentEditable = "true" THEN TRUE
    ELSE IF element.role = "textbox" THEN TRUE
    ELSE FALSE

\* a keydown of the key while the element has the focus
KeyEventOn(code, modifier, element) ==
    KeyEvent(code, code, modifier, isInputElement(element))

\* the text-input-like elements: input, textarea, select, an editing host,
\* an element with role=textbox
TextInputs ==
    {Element("INPUT", "inherit", ""), Element("TEXTAREA", "inherit", ""),
     Element("SELECT", "inherit", ""), Element("DIV", "true", ""),
     Element("DIV", "inherit", "textbox")}

OtherElements == {Element("BODY", "inherit", ""), Element("DIV", "false", "button")}

\* the keydowns C13 names, of one key: any while the handler is disabled,
\* and otherwise those with a modifier held or the focus in a text input
IgnoredEvents(code) ==
    {KeyEventOn(code, x[1], x[2]) :
        x \in {y \in BOOLEAN \X (TextInputs \cup OtherElements) :
                  ~isEnabled \/ y[1] \/ y[2] \in TextInputs}}

\* C13: a keydown that arrives while the handler is disabled, or with ctrl,
\* alt or meta held, or with the focus in a text-input-like element, runs no
\* action, suppresses nothing and leaves the video, the pressed-key set and
\* the last-accepted time as they were.
C13_IgnoredEntirely ==
    /\ [](\A code \in DOMAIN keyMappings : \A event \in IgnoredEvents(code) :
            \A env \in Envs :
              LET r == handleKeyDown(event, env)
              IN  /\ ~r.accepted
                  /\ r.calls = <<>>
                  /\ r.out.ret = "none"
                  /\ r.out.video = video
                  /\ preventPlatformConflicts(event) = <<>>)
    /\ [][ (evt' # evt /\ ~evt'.accepted)
           => (pressedKeys' = pressedKeys /\ lastKeyTime' = lastKeyTime) ]_vars

C13_Witness ==
    /\ ~isEnabled
    /\ currentPlayer
    /\ evt = [code |-> "KeyM", accepted |-> FALSE, calls |-> <<>>]
    /\ lastKeyTime = 0

(***************************************************************************)
(* What an action hands back to its caller.                                *)
(***************************************************************************)
MediaActions ==
    SeekOps \cup {"volumeUp", "volumeDown", "toggleMute", "togglePlayPause",
                  "toggleCaptions", "toggleFullscreen"}

\* C14: every media action returns true, false or a promise that resolves
\* to true or false; none throws.
C14_ActionsNeverThrow ==
    lastOp.op \in MediaActions =>
        \/ lastOp.ret \in {"true", "false"}
        \/ lastOp.ret = "promise" /\ lastOp.res \in {"true", "false", "pending"}

\* C15: a fullscreen request or exit that the browser rejects or that
\* throws makes toggleFullscreen return false, and nothing escapes the call.
C15_FullscreenFailureIsFalse ==
    [][ (/\ currentPlayer
         /\ apiCalls' = apiCalls + 1
         /\ lastOp'.op = "toggleFullscreen"
         /\ dom'.fullscreen = dom.fullscreen)
        => (lastOp'.ret = "false" /\ lastOp'.escaped = "none") ]_vars

\* C16: a seekForward or seekBackward on a connected player that ends
\* without the video's timing metadata having become available has tried
\* the fallback: it clicked a native control or assigned an estimate.
C16_FallbackWithoutMetadata ==
    [][ (/\ lastOp'.op \in {"seekForward", "seekBackward"}
         /\ \/ apiCalls' = apiCalls + 1 /\ currentPlayer
            \/ Len(pendingSeek') < Len(pendingSeek)
         /\ lastOp'.res # "pending"
         /\ lastOp'.durKind # "finite")
        => (lastOp'.clicked # <<>> \/ lastOp'.wrote # <<>>) ]_vars

(***************************************************************************)
(* The whole pipeline: start-up, in-page navigation, re-initialisation and *)
(* the commands and events that reach SeekerExtension.  Every pending call *)
(* of initializeComponents (the one of initialize(), the retry timers and  *)
(* the timers of reinitialize) is counted in initTimers.                   *)
(***************************************************************************)
MaxPipelines == 2

MaxListeners == 3

\* a pending initializeComponents runs; the settings are loaded, so
\* waitForConfig returns at once
runInitializeComponents(uiThrows) ==
    /\ initTimers > 0
    /\ listeners < MaxListeners
    /\ configAvailable /\ configLoaded
    /\ Construct(uiThrows)
    /\ initTimers' = IF phase' = "retryScheduled" THEN initTimers ELSE initTimers - 1
    /\ UNCHANGED <<siteVars, pageVars, video, settings, now, evt, pendingSeek,
                   execVars, configAvailable, configLoaded, reinitTimers, waitVars, storageVars, sinkVars>>

\* the page changes window.location.href without a page load: every running
\* watcher holds the former URL
UrlChange ==
    /\ urlWatchers + reinitTimers + initTimers <= MaxPipelines
    /\ urlNotices' = urlWatchers
    /\ UNCHANGED <<siteVars, pageVars, currentPlayer, video, settings, handlerVars,
                   now, evt, pendingSeek, execVars, startupVars, platformIntegration,
                   listeners, urlWatchers, reinitTimers, initTimers, userEnabled,
                   platformVars, detectorVars, waitVars, storageVars, sinkVars>>

\* the 2 s poll of one watcher that holds the former URL
checkUrlChange ==
    /\ urlNotices > 0
    /\ urlNotices' = urlNotices - 1
    /\ reinitTimers' = reinitTimers + 1
    /\ UNCHANGED <<siteVars, pageVars, currentPlayer, video, settings, handlerVars,
                   now, evt, pendingSeek, execVars, startupVars, platformIntegration,
                   listeners, urlWatchers, initTimers, userEnabled, platformVars, detectorVars, waitVars, storageVars, sinkVars>>

\* reinitialize: cleanup(), then the 500 ms timer for initializeComponents
reinitialize ==
    /\ reinitTimers > 0
    /\ reinitTimers' = reinitTimers - 1
    /\ isInitialized' = FALSE
    /\ IF platformIntegration # "null"
       THEN PlatformCleanup
       ELSE UNCHANGED platformVars
    /\ initTimers' = initTimers + 1
    /\ UNCHANGED <<siteVars, pageVars, currentPlayer, video, settings, handlerVars,
                   now, evt, pendingSeek, execVars, phase, retryCount, retryDelay,
                   giveUpLogs, configAvailable, configLoaded, platformIntegration,
                   listeners, urlWatchers, urlNotices, userEnabled, detectorVars, waitVars, storageVars, sinkVars>>

\* SeekerExtension.setEnabled, the command of the popup
setEnabled(enabled) ==
    /\ IF keyboardHandler
       THEN /\ isEnabled' = enabled
            /\ pressedKeys' = IF enabled THEN pressedKeys ELSE {}
            /\ userEnabled' = enabled
       ELSE UNCHANGED <<isEnabled, pressedKeys, userEnabled>>
    /\ UNCHANGED <<siteVars, pageVars, currentPlayer, video, settings,
                   keyboardHandler, lastKeyTime, keyMappings, now, evt, pendingSeek,
                   execVars, startupVars, platformIntegration, listeners,
                   urlWatchers, urlNotices, reinitTimers, initTimers, platformVars, detectorVars, waitVars, storageVars, sinkVars>>

\* the window's focus listener, registered by setupGlobalListeners
windowFocus ==
    /\ urlWatchers > 0
    /\ isEnabled' = IF keyboardHandler THEN TRUE ELSE isEnabled
    /\ UNCHANGED <<siteVars, pageVars, currentPlayer, video, settings,
                   keyboardHandler, pressedKeys, lastKeyTime, keyMappings, now, evt,
                   pendingSeek, execVars, startupVars, pipelineVars, platformVars, detectorVars, waitVars, storageVars, sinkVars>>

\* the page has loaded on one of the sites and initialize() is about to call
\* initializeComponents
InitPipeline ==
    /\ \E site \in SitePolicies : hostname = site[1] /\ conflictPolicy = site[2]
    /\ domVideo = TRUE
    /\ dom = BarePage
    /\ currentPlayer = FALSE
    /\ video = LoadedVideo(200, 2)
    /\ settings = defaultSettings
    /\ keyboardHandler = FALSE
    /\ isEnabled = FALSE
    /\ pressedKeys = {}
    /\ lastKeyTime = 0
    /\ keyMappings = << >>
    /\ now = keyRepeatDelay
    /\ evt = NoEvent
    /\ pendingSeek = <<>>
    /\ lastOp = NoOp
    /\ muteRun = [n |-> 0, origin |-> FALSE]
    /\ apiCalls = 0
    /\ phase = "starting"
    /\ retryCount = 0
    /\ retryDelay = 0
    /\ giveUpLogs = 0
    /\ configAvailable = TRUE
    /\ configLoaded = TRUE
    /\ isInitialized = FALSE
    /\ platformIntegration = "null"
    /\ listeners = 0
    /\ urlWatchers = 0
    /\ urlNotices = 0
    /\ reinitTimers = 0
    /\ initTimers = 1
    /\ userEnabled = TRUE
    /\ NoPlatform
    /\ NoDetector
    /\ sink = NoNotification
    /\ NoStorage
    /\ wait = NoWait

NextPipeline ==
    \/ \E uiThrows \in BOOLEAN : runInitializeComponents(uiThrows)
    \/ UrlChange
    \/ checkUrlChange
    \/ reinitialize
    \/ \E enabled \in BOOLEAN : setEnabled(enabled)
    \/ windowFocus
    \/ \E player \in BOOLEAN : isInitialized /\ handlePlayerChange(player)

SpecPipeline == InitPipeline /\ [][NextPipeline]_vars

\* C17: once start-up has completed on a supported site, the status reports
\* initialized, the site's name as the platform (never 'Unknown'), and
\* keyboardEnabled and player.connected as the handler's enabled flag and
\* whether a player is held.
C17_StatusOnSupportedSite ==
    (isInitialized /\ IsSupportedPlatform(hostname)) =>
        /\ getStatus.initialized
        /\ getStatus.platform \in {"Hulu", "Paramount+"}
        /\ getStatus.keyboardEnabled = isEnabled
        /\ getStatus.connected = currentPlayer

\* C19: after in-page navigation and re-initialisation the listeners of every
\* previous pipeline are gone: a re-initialisation that follows a completed
\* start-up leaves exactly one KeyboardHandler bound to keydown, and a URL
\* change is noticed by exactly one watcher, so it arms one reinitialize.
C19_OnePipelineAfterNavigation ==
    [][ /\ (listeners' > listeners /\ phase = "ready") => listeners' = 1
        /\ urlNotices' > urlNotices => urlNotices' = 1 ]_vars

\* C20: while the last command from outside is setEnabled(false), the handler
\* stays disabled, whatever player changes, focus events and
\* re-initialisations happen, and no keydown is acted upon; a handler that
\* was disabled holds no pressed key.
C20_DisabledUntilEnabled ==
    (keyboardHandler /\ ~userEnabled) =>
        /\ ~isEnabled
        /\ pressedKeys = {}
        /\ \A code \in DOMAIN keyMappings : \A env \in Envs :
               LET r == handleKeyDown(Press(code), env)
               IN  ~r.accepted /\ r.calls = <<>>

(***************************************************************************)
(* A platform integration on its own: constructed and initialized on a     *)
(* page of its site, then the page shows, hides and removes its skip       *)
(* button, the 2 s poll runs, S is pressed and cleanup() is called.        *)
(***************************************************************************)
MaxSkipListeners == 2

ButtonStates == {"absent", "visible", "hidden"}

\* the page inserts a skip button, changes its display or disabled state, or
\* removes it.  The observer ParamountPlatform attaches with each listener
\* removes that listener when its button becomes hidden or disabled; it sees
\* no removal from the document
SkipButtonChange(to) ==
    /\ to # skipButton
    /\ skipButton' = to
    /\ skipListeners' =
         IF platformIntegration # "Paramount+" THEN skipListeners
         ELSE IF skipButton = "visible" /\ to = "hidden"
              THEN [skipListeners EXCEPT !.live = 0]
         ELSE IF to = "absent"
              THEN [live |-> 0, stale |-> skipListeners.stale + skipListeners.live]
         ELSE skipListeners
    /\ UNCHANGED <<siteVars, pageVars, currentPlayer, video, settings, handlerVars,
                   now, evt, pendingSeek, execVars, startupVars, pipelineVars,
                   skipPolling, platformInitialized, shortcut, detectorVars, waitVars, storageVars, sinkVars>>

\* the setInterval(checkForSkipButton, 2000) callback
pollSkipButton ==
    /\ skipPolling
    /\ skipListeners.live + skipListeners.stale < MaxSkipListeners
    /\ skipListeners' = checkForSkipButton(platformIntegration)
    /\ UNCHANGED <<siteVars, pageVars, currentPlayer, video, settings, handlerVars,
                   now, evt, pendingSeek, execVars, startupVars, pipelineVars,
                   skipButton, skipPolling, platformInitialized, shortcut,
                   detectorVars, waitVars, storageVars, sinkVars>>

\* a keydown of S without modifiers reaches the S listeners on the document:
\* each ParamountPlatform listener clicks the button it was created for and
\* calls preventDefault; the HuluPlatform listener looks the button up and
\* does both only if it is visible
PressS ==
    /\ LET bound == skipListeners.live + skipListeners.stale
           acts == IF platformIntegration = "Paramount+" THEN bound
                   ELSE IF bound > 0 /\ skipButton = "visible" THEN 1
                   ELSE 0
       IN  shortcut' = [pressed |-> TRUE, clicks |-> acts, suppressed |-> acts,
                        visible |-> skipButton = "visible",
                        initialized |-> platformInitialized,
                        armed |-> bound > 0]
    /\ UNCHANGED <<siteVars, pageVars, currentPlayer, video, settings, handlerVars,
                   now, evt, pendingSeek, execVars, startupVars, pipelineVars,
                   skipButton, skipListeners, skipPolling, platformInitialized,
                   detectorVars, waitVars, storageVars, sinkVars>>

\* cleanup() is called on the integration
cleanup ==
    /\ platformInitialized
    /\ PlatformCleanup
    /\ UNCHANGED <<siteVars, pageVars, currentPlayer, video, settings, handlerVars,
                   now, evt, pendingSeek, execVars, startupVars, pipelineVars,
                   detectorVars, waitVars, storageVars, sinkVars>>

\* the integration of the site has been constructed and initialized on a
\* page that shows no skip button yet
InitPlatform ==
    /\ \E site \in {<<"www.hulu.com", "Hulu">>, <<"www.paramountplus.com", "Paramount+">>} :
           hostname = site[1] /\ platformIntegration = site[2]
    /\ conflictPolicy = TRUE
    /\ domVideo = TRUE
    /\ dom = BarePage
    /\ currentPlayer = FALSE
    /\ video = LoadedVideo(200, 2)
    /\ settings = defaultSettings
    /\ Started
    /\ now = keyRepeatDelay
    /\ evt = NoEvent
    /\ pendingSeek = <<>>
    /\ lastOp = NoOp
    /\ muteRun = [n |-> 0, origin |-> FALSE]
    /\ apiCalls = 0
    /\ skipButton = "absent"
    /\ skipListeners = [live |-> 0, stale |-> 0]
    /\ skipPolling = TRUE
    /\ platformInitialized = TRUE
    /\ shortcut = NoShortcut
    /\ NoDetector
    /\ sink = NoNotification
    /\ NoStorage
    /\ wait = NoWait

NextPlatform ==
    \/ \E to \in ButtonStates : SkipButtonChange(to)
    \/ pollSkipButton
    \/ PressS
    \/ cleanup

SpecPlatform == InitPlatform /\ [][NextPlatform]_vars

\* C18: the S shortcut acts only while the skip button is present and
\* visible at the key press: with the button gone or hidden, or the
\* integration cleaned up, a press clicks nothing and suppresses nothing;
\* with the button visible and the shortcut set up, a press clicks once.
C18_ShortcutOnlyWhileVisible ==
    shortcut.pressed =>
        /\ (~shortcut.visible \/ ~shortcut.initialized)
              => (shortcut.clicks = 0 /\ shortcut.suppressed = 0)
        /\ (shortcut.visible /\ shortcut.initialized /\ shortcut.armed)
              => shortcut.clicks = 1

(***************************************************************************)
(* The seek keys over media with and without metadata: a seek an accepted  *)
(* keydown starts runs to its end at once, or stays suspended in           *)
(* waitForVideoMetadata until the element or the clock releases it.        *)
(***************************************************************************)
SeekEvents == {Press("KeyJ"), Press("Digit0")}

InitSeekEvents ==
    /\ InitOn({<<"www.hulu.com", TRUE>>, <<"example.com", FALSE>>},
              {LiveVideo, EmptyVideo})
    /\ domVideo = TRUE

NextSeekEvents ==
    \/ \E event \in SeekEvents, env \in Envs : KeyDown(event, env)
    \/ \E event \in SeekEvents : KeyUp(event)
    \/ \E player \in BOOLEAN : handlePlayerChange(player)
    \/ checkMetadata
    \/ \E durKind \in {"finite", "Inf"}, readyState \in {1, 3} :
           onLoadedMetadata(durKind, readyState)
    \/ WaitTick

SpecSeekEvents == InitSeekEvents /\ [][NextSeekEvents]_vars

\* the accepted keydown just dispatched is mapped to a seek action that is
\* not platform-handled
SeekKeyAccepted ==
    /\ evt.accepted
    /\ evt.code \in DOMAIN keyMappings
    /\ IsSeekAction(keyMappings[evt.code].action)
    /\ ~keyMappings[evt.code].platformHandled

\* position in seq of the first occurrence of call, 0 if there is none
IndexOf(seq, call) ==
    IF \E i \in 1..Len(seq) : seq[i] = call
    THEN CHOOSE i \in 1..Len(seq) : seq[i] = call /\ \A j \in 1..(i - 1) : seq[j] # call
    ELSE 0

\* C21: an accepted keydown mapped to a seek action that is not
\* platform-handled has preventDefault and stopPropagation called on it inside
\* the handler, after the action was invoked and whatever the seek's promise
\* holds then or later (true, false or still pending).
C21_SeekSuppressedInHandler ==
    /\ [](SeekKeyAccepted =>
            /\ IndexOf(evt.calls, "action") > 0
            /\ IndexOf(evt.calls, "preventDefault") > 0
            /\ IndexOf(evt.calls, "stopPropagation") > 0)
    /\ [](\A event \in SeekEvents : \A env \in Envs :
            LET r == handleKeyDown(event, env)
                mapping == keyMappings[getKeyIdentifier(event)]
            IN  (r.accepted /\ IsSeekAction(mapping.action) /\ ~mapping.platformHandled)
                  => /\ r.out.ret = "promise"
                     /\ \E i, j \in 1..Len(r.calls) :
                           r.calls[i] = "preventDefault" /\ r.calls[j] = "stopPropagation")

\* the keydown's seek is still suspended in its metadata wait
C21_Witness ==
    /\ SeekKeyAccepted
    /\ hostname = "example.com"
    /\ Len(pendingSeek) = 1
    /\ evt.calls = <<"action", "preventDefault", "stopPropagation">>

\* C22: when the handle was cleared while a seek was suspended in its
\* metadata wait, the resumed seek assigns no position to the element it was
\* started on, ends with a result instead of an exception, and its result is
\* true only if a position was assigned.
C22_ResumeLeavesSupersededVideo ==
    [][ (Len(pendingSeek') < Len(pendingSeek) /\ ~currentPlayer)
        => /\ lastOp'.wrote = <<>>
           /\ lastOp'.res \in {"true", "false"}
           /\ lastOp'.res = "true" => lastOp'.wrote # <<>> ]_vars

(***************************************************************************)
(* PlayerDetector.  A video element of the page is a record: id is its     *)
(* identity, ready tells whether its readyState is above 0, inPlayer       *)
(* whether it lies inside the site's player container, dataId whether it   *)
(* carries a data-element-id attribute.                                    *)
(***************************************************************************)
VideoIds == {"v1", "v2"}

VideoElements == [id : VideoIds, ready : BOOLEAN, inPlayer : BOOLEAN, dataId : BOOLEAN]

\* the pages of the runs: up to two video elements in document order
Pages ==
    {<<>>} \cup {<<e>> : e \in VideoElements}
           \cup {<<e, f>> : e \in {x \in VideoElements : x.id = "v1"},
                            f \in {x \in VideoElements : x.id = "v2"}}

\* videoSelectors of the configuration initializeDetectors registers
VideoSelectors(h) ==
    IF HostIncludes(h, "paramountplus.com")
        THEN <<"video[data-element-id]", ".aa-player-skin video", "video">>
    ELSE IF HostIncludes(h, "hulu.com")
        THEN <<"video", ".player-video video">>
    ELSE IF HostIncludes(h, "disneyplus.com")
        THEN <<"video", ".btm-media-overlays-container video">>
    ELSE <<"video">>

\* the element matches the selector
Matches(selector, e) ==
    CASE selector = "video" -> TRUE
      [] selector = "video[data-element-id]" -> e.dataId
      [] OTHER -> e.inPlayer

\* document.querySelector: the position in the page of the first element
\* that matches, 0 for null
querySelector(selector) ==
    IF \E i \in 1..Len(page) : Matches(selector, page[i])
    THEN CHOOSE i \in 1..Len(page) :
             /\ Matches(selector, page[i])
             /\ \A j \in 1..(i - 1) : ~Matches(selector, page[j])
    ELSE 0

\* the video loop of detectPlayerWithConfig from selector k on, video being
\* what the selectors before k left in the variable
RECURSIVE FindVideo(_, _, _)
FindVideo(selectors, k, found) ==
    IF k > Len(selectors) THEN found
    ELSE LET v == querySelector(selectors[k])
         IN  IF v # 0 /\ page[v].ready THEN v
             ELSE FindVideo(selectors, k + 1, v)

\* a video loop that stops at the first selector that matches an element
RECURSIVE FindFirstVideo(_, _, _)
FindFirstVideo(selectors, k, found) ==
    IF k > Len(selectors) THEN found
    ELSE LET v == querySelector(selectors[k])
         IN  IF v # 0 THEN v
             ELSE FindFirstVideo(selectors, k + 1, v)

\* the video of the player detectPlayerWithConfig returns, "null" for none
detectPlayerWithConfig ==
    LET v == FindVideo(VideoSelectors(hostname), 1, 0)
    IN  IF v = 0 THEN "null" ELSE page[v].id

\* the last two of the arguments
LastTwo(seq) == IF Len(seq) <= 2 THEN seq ELSE SubSeq(seq, Len(seq) - 1, Len(seq))

\* a callback that leaves the executor's player in place when the player is lost
onPlayerChangeKeep(player) ==
    /\ notices' = LastTwo(Append(notices, player))
    /\ currentPlayer' = IF player # "null" THEN TRUE ELSE currentPlayer
    /\ isEnabled' = IF player # "null" THEN TRUE ELSE isEnabled

\* onPlayerChange(player): SeekerExtension.handlePlayerChange
onPlayerChange(player) ==
    /\ notices' = LastTwo(Append(notices, player))
    /\ currentPlayer' = (player # "null")
    /\ isEnabled' = IF player # "null" THEN TRUE ELSE isEnabled

\* a detectPlayer that takes every player it finds for a new one
detectPlayerAlways ==
    /\ scanDue
    /\ scanDue' = FALSE
    /\ LET player == detectPlayerWithConfig
       IN  IF player # "null"
           THEN detected' = player /\ onPlayerChange(player)
           ELSE IF detected # "null"
                THEN detected' = "null" /\ onPlayerChange("null")
                ELSE UNCHANGED <<detected, notices, currentPlayer, isEnabled>>
    /\ UNCHANGED <<siteVars, pageVars, video, settings, keyboardHandler,
                   pressedKeys, lastKeyTime, keyMappings, now, evt, pendingSeek,
                   execVars, startupVars, pipelineVars, platformVars, page, waitVars, storageVars, sinkVars>>

\* a scheduled detectPlayer runs
detectPlayer ==
    /\ scanDue
    /\ scanDue' = FALSE
    /\ LET player == detectPlayerWithConfig
       IN  IF player # "null"
           THEN IF detected = "null" \/ detected # player
                THEN detected' = player /\ onPlayerChange(player)
                ELSE UNCHANGED <<detected, notices, currentPlayer, isEnabled>>
           ELSE IF detected # "null"
                THEN detected' = "null" /\ onPlayerChange("null")
                ELSE UNCHANGED <<detected, notices, currentPlayer, isEnabled>>
    /\ UNCHANGED <<siteVars, pageVars, video, settings, keyboardHandler,
                   pressedKeys, lastKeyTime, keyMappings, now, evt, pendingSeek,
                   execVars, startupVars, pipelineVars, platformVars, page, waitVars, storageVars, sinkVars>>

\* the page inserts, removes or re-attributes video elements: the mutation
\* observer schedules a detectPlayer
PageMutation(newPage) ==
    /\ newPage # page
    /\ page' = newPage
    /\ domVideo' = (newPage # <<>>)
    /\ scanDue' = TRUE
    /\ UNCHANGED <<siteVars, dom, currentPlayer, video, settings, handlerVars, now,
                   evt, pendingSeek, execVars, startupVars, pipelineVars,
                   platformVars, detected, notices, waitVars, storageVars, sinkVars>>

\* a video element loads its metadata: its readyState rises, which no
\* observer of the detector sees
MediaLoads(i) ==
    /\ i \in 1..Len(page)
    /\ ~page[i].ready
    /\ page' = [page EXCEPT ![i].ready = TRUE]
    /\ UNCHANGED <<siteVars, pageVars, currentPlayer, video, settings, handlerVars,
                   now, evt, pendingSeek, execVars, startupVars, pipelineVars,
                   platformVars, detected, notices, scanDue, waitVars, storageVars, sinkVars>>

\* window.location.href changes: the detector's URL poll schedules a
\* detectPlayer
LocationChange ==
    /\ scanDue' = TRUE
    /\ UNCHANGED <<siteVars, pageVars, currentPlayer, video, settings, handlerVars,
                   now, evt, pendingSeek, execVars, startupVars, pipelineVars,
                   platformVars, page, detected, notices, waitVars, storageVars, sinkVars>>

\* initializeCore has constructed the detector on a page of one of the
\* sites: the constructor's detectPlayer is about to run
InitDetector ==
    /\ \E site \in {<<"www.hulu.com", TRUE>>, <<"www.paramountplus.com", TRUE>>,
                    <<"example.com", FALSE>>} :
           hostname = site[1] /\ conflictPolicy = site[2]
    /\ page \in Pages
    /\ domVideo = (page # <<>>)
    /\ dom = BarePage
    /\ currentPlayer = FALSE
    /\ video = LoadedVideo(200, 2)
    /\ settings = defaultSettings
    /\ Started
    /\ platformIntegration = "null"
    /\ NoPlatform
    /\ now = keyRepeatDelay
    /\ evt = NoEvent
    /\ pendingSeek = <<>>
    /\ lastOp = NoOp
    /\ muteRun = [n |-> 0, origin |-> FALSE]
    /\ apiCalls = 0
    /\ detected = "null"
    /\ notices = <<>>
    /\ scanDue = TRUE
    /\ sink = NoNotification
    /\ NoStorage
    /\ wait = NoWait

NextDetector ==
    \/ detectPlayer
    \/ \E newPage \in Pages : PageMutation(newPage)
    \/ \E i \in 1..2 : MediaLoads(i)
    \/ LocationChange

SpecDetector == InitDetector /\ [][NextDetector]_vars

\* the event loop runs a scheduled detectPlayer
SpecDetectorFair == SpecDetector /\ WF_vars(detectPlayer)

\* a page that stays as it is but for its media loading: no DOM mutation and
\* no URL change after the detector is constructed
NextQuiet ==
    \/ detectPlayer
    \/ \E i \in 1..2 : MediaLoads(i)

\* the event loop runs the scheduled detectPlayer and the browser loads the
\* media of every video element
SpecQuietFair ==
    /\ InitDetector
    /\ [][NextQuiet]_vars
    /\ WF_vars(detectPlayer)
    /\ WF_vars(\E i \in 1..2 : MediaLoads(i))

\* C23: the handle is replaced, and onPlayerChange called, only by a scan
\* that finds a video other than the handle's (by identity) or finds none
\* while a handle is held; a scan that finds the handle's video changes
\* nothing and notifies nobody, so no two notifications in a row carry the
\* same video.
C23_ReplacedOnlyOnNewVideo ==
    /\ [][ /\ (detected' # detected \/ notices' # notices)
              => (scanDue /\ ~scanDue' /\ detectPlayerWithConfig # detected
                  /\ detected' = detectPlayerWithConfig)
           /\ (scanDue /\ ~scanDue' /\ detectPlayerWithConfig = detected)
              => (detected' = detected /\ notices' = notices) ]_vars
    /\ []((Len(notices) = 2 /\ notices[1] # "null") => notices[1] # notices[2])

\* a second video superseded the first, and a later scan found it again
C23_Witness ==
    /\ notices = <<"v1", "v2">>
    /\ detected = "v2"
    /\ ~scanDue
    /\ detectPlayerWithConfig = "v2"

\* C24: a scan that finds no video while a handle is held clears the handle,
\* calls onPlayerChange with null once and leaves the executor without a
\* player; a later scan that finds none again notifies nobody; and while the
\* executor has no player, every mapped action returns false and changes
\* nothing.
C24_LostPlayerClearsHandle ==
    /\ [][ /\ (scanDue /\ ~scanDue' /\ detected # "null"
               /\ detectPlayerWithConfig = "null")
              => /\ detected' = "null"
                 /\ notices' = LastTwo(Append(notices, "null"))
                 /\ ~currentPlayer'
           /\ (scanDue /\ ~scanDue' /\ detected = "null"
               /\ detectPlayerWithConfig = "null")
              => notices' = notices ]_vars
    /\ []((detected = "null") = ~currentPlayer)
    /\ [](~currentPlayer =>
            \A code \in DOMAIN keyMappings : \A env \in Envs :
                LET out == Invoke(keyMappings[code], env)
                IN  /\ out.res = "false"
                    /\ out.video = video /\ out.dom = dom
                    /\ out.wrote = <<>> /\ out.clicked = <<>>)

\* the player v1 was lost, and the scan after the loss found nothing again
C24_Witness ==
    /\ notices = <<"v1", "null">>
    /\ detected = "null"
    /\ ~currentPlayer
    /\ ~scanDue
    /\ page = <<>>

\* C25: a video element that is on the page and stays there is detected in
\* the end, whatever its ready state at the first scan and without any
\* further mutation or URL change: the detector holds a handle and the
\* executor is connected.
C25_DetectionRecovers ==
    page # <<>> => <>(detected # "null" /\ currentPlayer)

\* the video of the earliest selector of the site's list that matches an
\* element, "null" when none matches
FirstMatchVideo ==
    LET v == FindFirstVideo(VideoSelectors(hostname), 1, 0)
    IN  IF v = 0 THEN "null" ELSE page[v].id

\* C26: the selectors are tried in order and the first match wins: after a
\* scan the handle's video is the element matched by the earliest selector of
\* the site's video list that matches any element.
C26_FirstMatchWins ==
    [][ (scanDue /\ ~scanDue') => detected' = FirstMatchVideo ]_vars

\* C27: the k-th retry of the start-up sequence is scheduled
\* min(1000 * 2^(k-1), 10000) ms after the failure, the retry counter never
\* exceeds maxRetries, and a completed start-up resets it to 0.
C27_BackoffFromOneSecond ==
    /\ retryCount <= maxRetries
    /\ phase = "retryScheduled" => retryDelay = Min(1000 * 2 ^ (retryCount - 1), 10000)
    /\ phase = "ready" => retryCount = 0

\* C28: on a host that matches no site policy the handler suppresses
\* nothing: whatever the key and whatever the action returns, it calls none
\* of preventDefault, stopPropagation and stopImmediatePropagation.
C28_GenericNeverSuppresses ==
    ~IsSupportedPlatform(hostname) =>
        \A i \in 1..Len(evt.calls) : evt.calls[i] \notin Suppressions

\* C29: an enabled handler ignores a plain, non-repeated press of a mapped
\* key for lack of a player only when no player is held and the site is not
\* a supported one with a video element on the page: with a player held, or
\* on a supported site with a video element, the press is accepted and the
\* mapped action is invoked.
C29_IgnoredOnlyWithoutPlayer ==
    \A code \in DOMAIN keyMappings :
        (/\ isEnabled
         /\ ~IsRepeat(code)
         /\ \/ currentPlayer
            \/ IsSupportedPlatform(hostname) /\ domVideo)
        => \A env \in Envs :
               LET r == handleKeyDown(Press(code), env)
               IN  r.accepted /\ \E i \in 1..Len(r.calls) : r.calls[i] = "action"

\* C30: the key-mapping table of a constructed handler is immutable: no
\* step adds, removes or replaces an individual entry, so the table stays
\* the one initializeKeyMappings built.
C30_MappingTableImmutable ==
    [][(keyboardHandler /\ keyboardHandler')
       => /\ keyMappings' = keyMappings
          /\ keyMappings' = initializeKeyMappings]_vars

(***************************************************************************)
(* MediaController.waitForVideoMetadata by itself: the promise, the four   *)
(* listeners it registers on the element, and the animation-frame          *)
(* callbacks of checkMetadata it has requested.                            *)
(***************************************************************************)
WaitListeners == {"loadedmetadata", "canplay", "timeupdate", "error"}

\* time between two looks at the clock in the waiting runs
WaitStep == 1000

\* cleanupAndResolve that leaves the listeners on the element
cleanupAndResolveLeak(w, result) ==
    IF w.resolved THEN w
    ELSE [w EXCEPT !.resolved = TRUE, !.results = Append(@, result)]

cleanupAndResolve(w, result) ==
    IF w.resolved THEN w
    ELSE [w EXCEPT !.resolved = TRUE, !.listeners = {},
                   !.results = Append(@, result)]

\* checkMetadata of the call w, on the element v
checkMetadataOf(w, v) ==
    IF w.resolved THEN w
    ELSE IF MetadataAvailable(v) THEN cleanupAndResolve(w, "true")
    ELSE IF IsHulu /\ v.readyState >= 2 THEN cleanupAndResolve(w, "true")
    ELSE IF IsHulu /\ v.currentTime # w.lastCurrentTime
        THEN cleanupAndResolve(w, "true")
    ELSE IF now - w.startTime > MetadataTimeout
        THEN cleanupAndResolve(w, "false")
    ELSE [w EXCEPT !.frames = @ + 1,
                   !.lastCurrentTime = IF IsHulu THEN v.currentTime ELSE @]

\* onLoadedMetadata of the call w, on the element v
onLoadedMetadataOf(w, v) ==
    IF MetadataAvailable(v) THEN cleanupAndResolve(w, "true")
    ELSE [w EXCEPT !.frames = @ + 1]

\* a call waitForVideoMetadata(video, 2000), up to the point where it
\* returns its promise
WaitCall ==
    /\ wait.frames = 0
    /\ wait.called => wait.results # <<>>
    /\ now + MetadataTimeout + WaitStep <= MaxExecTime
    /\ wait' =
         IF \/ MetadataAvailable(video)
            \/ IsHulu /\ \/ video.readyState >= 1 /\ ~video.error
                         \/ video.currentTime > 0
         THEN [NoWait EXCEPT !.called = TRUE, !.results = <<"true">>]
         ELSE checkMetadataOf([NoWait EXCEPT !.called = TRUE,
                                             !.listeners = WaitListeners,
                                             !.startTime = now,
                                             !.lastCurrentTime = video.currentTime],
                              video)
    /\ UNCHANGED <<siteVars, pageVars, currentPlayer, video, settings, handlerVars,
                   now, evt, pendingSeek, execVars, startupVars, pipelineVars,
                   platformVars, detectorVars, storageVars, sinkVars>>

\* an animation frame runs a requested checkMetadata
FrameCheck ==
    /\ wait.frames > 0
    /\ wait' = checkMetadataOf([wait EXCEPT !.frames = @ - 1], video)
    /\ UNCHANGED <<siteVars, pageVars, currentPlayer, video, settings, handlerVars,
                   now, evt, pendingSeek, execVars, startupVars, pipelineVars,
                   platformVars, detectorVars, storageVars, sinkVars>>

\* the element fires loadedmetadata (readyState 1) or canplay (readyState
\* 3), its duration then being 200 s, Infinity or still NaN; the listener
\* runs if it is registered
LoadedMetadataEvent(name, durKind) ==
    /\ wait.called
    /\ ~video.error
    /\ video.readyState < (IF name = "loadedmetadata" THEN 1 ELSE 3)
    /\ LET v == [video EXCEPT !.durKind = durKind,
                              !.duration = IF durKind = "finite" THEN 200 ELSE 0,
                              !.readyState = IF name = "loadedmetadata" THEN 1 ELSE 3]
       IN  /\ video' = v
           /\ wait' = IF name \in wait.listeners
                      THEN onLoadedMetadataOf(wait, v) ELSE wait
    /\ UNCHANGED <<siteVars, pageVars, currentPlayer, settings, handlerVars,
                   now, evt, pendingSeek, execVars, startupVars, pipelineVars,
                   platformVars, detectorVars, storageVars, sinkVars>>

\* the element fires timeupdate; the listener runs if it is registered
TimeUpdateEvent ==
    /\ wait.called
    /\ video.readyState >= 1
    /\ video.currentTime = 0
    /\ video' = [video EXCEPT !.currentTime = 1]
    /\ wait' = IF "timeupdate" \in wait.listeners /\ IsHulu
               THEN cleanupAndResolve(wait, "true") ELSE wait
    /\ UNCHANGED <<siteVars, pageVars, currentPlayer, settings, handlerVars,
                   now, evt, pendingSeek, execVars, startupVars, pipelineVars,
                   platformVars, detectorVars, storageVars, sinkVars>>

\* the element fires error; the listener runs if it is registered
ErrorEvent ==
    /\ wait.called
    /\ ~video.error
    /\ video' = [video EXCEPT !.error = TRUE]
    /\ wait' = IF "error" \in wait.listeners
               THEN cleanupAndResolve(wait, "false") ELSE wait
    /\ UNCHANGED <<siteVars, pageVars, currentPlayer, settings, handlerVars,
                   now, evt, pendingSeek, execVars, startupVars, pipelineVars,
                   platformVars, detectorVars, storageVars, sinkVars>>

\* time passes
MetadataTick ==
    /\ wait.called
    /\ now + WaitStep <= MaxExecTime
    /\ now' = now + WaitStep
    /\ UNCHANGED <<siteVars, pageVars, currentPlayer, video, settings, handlerVars,
                   evt, pendingSeek, execVars, startupVars, pipelineVars,
                   platformVars, detectorVars, waitVars, storageVars, sinkVars>>

InitMetadata ==
    /\ InitOn({<<"www.hulu.com", TRUE>>, <<"example.com", FALSE>>},
              {LiveVideo, EmptyVideo, LoadedVideo(200, 2)})
    /\ domVideo = TRUE

NextMetadata ==
    \/ WaitCall
    \/ FrameCheck
    \/ \E name \in {"loadedmetadata", "canplay"}, durKind \in {"finite", "Inf", "NaN"} :
           LoadedMetadataEvent(name, durKind)
    \/ TimeUpdateEvent
    \/ ErrorEvent
    \/ MetadataTick

SpecMetadata == InitMetadata /\ [][NextMetadata]_vars

\* animation frames keep coming while the document is shown, and the
\* clock advances
SpecMetadataFair ==
    SpecMetadata /\ WF_vars(FrameCheck) /\ WF_vars(MetadataTick)

ExecOutcomes ==
    {Invoke(Entry(c[1], c[2], FALSE, FALSE), env) : c \in ExecCalls, env \in Envs}
    \cup {skipForward(b) : b \in BOOLEAN} \cup {skipBackward(b) : b \in BOOLEAN}

\* C32: with no player handle, every executor action yields false (the seek
\* family and the skips through a promise, the others as their return value)
\* at once: no seek is left waiting for metadata, no site control is
\* clicked, nothing is assigned to the element, and the element and the
\* page stay as they were.
C32_FailsFastWithoutPlayer ==
    ~currentPlayer =>
        \A out \in ExecOutcomes :
            /\ out.res = "false"
            /\ out.ret \in {"false", "promise"}
            /\ out.pend = <<>>
            /\ out.clicked = <<>>
            /\ out.wrote = <<>>
            /\ out.video = video
            /\ out.dom = dom
            /\ out.escaped = "none"

\* a seek called after the handle of a live stream without data was
\* cleared: it has answered false and no seek waits
C32_Witness ==
    /\ ~currentPlayer
    /\ video.durKind = "Inf"
    /\ video.readyState = 0
    /\ apiCalls = 2
    /\ pendingSeek = <<>>
    /\ lastOp.op = "seekToPercentage"
    /\ lastOp.ret = "promise"
    /\ lastOp.res = "false"
    /\ lastOp.wrote = <<>>

\* C33: togglePlayPause on a connected player with playback control enabled
\* returns true in both branches and lets nothing escape; a playing video
\* is paused by the call; when the browser rejects play() on a paused
\* video, the video stays paused and no 'Play' notification is shown.
C33_PlayPauseReturnsTrue ==
    canControlPlayback =>
        \A playAllowed \in BOOLEAN :
            LET out == togglePlayPause(playAllowed)
            IN  /\ out.ret = "true"
                /\ out.res = "true"
                /\ out.escaped = "none"
                /\ ~video.paused => out.video.paused
                /\ (video.paused /\ ~playAllowed)
                      => /\ out.video.paused
                         /\ PlayPauseNotice(playAllowed) # "Play"
                /\ (video.paused /\ playAllowed) => ~out.video.paused

\* the second of two calls, a togglePlayPause on a connected player, has
\* returned true and the video is paused
C33_Witness ==
    /\ canControlPlayback
    /\ apiCalls = 2
    /\ lastOp.op = "togglePlayPause"
    /\ lastOp.ret = "true"
    /\ lastOp.escaped = "none"
    /\ video.paused
    /\ muteRun.n = 0

(***************************************************************************)
(* The feature flags: the volume and playback keys while the settings      *)
(* enableVolumeControl and enablePlaybackControl are written.              *)
(***************************************************************************)
FlagEvents == {Press("ArrowUp"), Press("KeyM"), Press("KeyK")}

VolumeCodes == {"ArrowUp", "ArrowDown", "KeyM"}

FlagNames == {"enableVolumeControl", "enablePlaybackControl"}

InitFlags ==
    InitOn({<<"www.hulu.com", TRUE>>, <<"example.com", FALSE>>},
           {LoadedVideo(200, 2)})

NextFlags ==
    \/ \E event \in FlagEvents, env \in Envs : KeyDown(event, env)
    \/ \E event \in FlagEvents : KeyUp(event)
    \/ \E key \in FlagNames, value \in BOOLEAN : set(key, value)
    \/ \E player \in BOOLEAN : handlePlayerChange(player)

SpecFlags == InitFlags /\ [][NextFlags]_vars

\* C34: while enableVolumeControl is false no step changes the element's
\* volume or muted flag and the volume keys' actions return false; while
\* enablePlaybackControl is false no step changes its paused state and
\* togglePlayPause returns false; the flag is read at each key press, so
\* with the flag true again and a player connected the same key acts.
C34_FlagsGateMutations ==
    /\ [][~settings.enableVolumeControl
            => video'.volume = video.volume /\ video'.muted = video.muted]_vars
    /\ [][~settings.enablePlaybackControl => video'.paused = video.paused]_vars
    /\ [](\A event \in FlagEvents, env \in Envs :
            LET r == handleKeyDown(event, env)
                enabled == IF event.code \in VolumeCodes
                           THEN settings.enableVolumeControl
                           ELSE settings.enablePlaybackControl
            IN  /\ (r.accepted /\ ~enabled)
                      => /\ r.out.ret = "false"
                         /\ r.out.video = video
                         /\ r.out.wrote = <<>>
                /\ (r.accepted /\ enabled /\ currentPlayer) => r.out.ret = "true")

\* with a player connected and enableVolumeControl written false, the M key
\* was accepted, its action returned false (nothing was suppressed) and the
\* element is not muted
C34_Witness ==
    /\ currentPlayer
    /\ hostname = "example.com"
    /\ ~settings.enableVolumeControl
    /\ evt.code = "KeyM"
    /\ evt.accepted
    /\ evt.calls = <<"action">>
    /\ ~video.muted
    /\ video.volume = 90

(***************************************************************************)
(* The notification sink.  window.SeekerNotification exists once the       *)
(* content script that defines it has run; the executor looks it up at     *)
(* every notification.                                                     *)
(***************************************************************************)
\* the content script that defines window.SeekerNotification runs
NotificationScriptRuns ==
    /\ ~dom.notifier
    /\ dom' = [dom EXCEPT !.notifier = TRUE]
    /\ UNCHANGED <<siteVars, domVideo, currentPlayer, video, settings, handlerVars,
                   now, evt, pendingSeek, execVars, startupVars, pipelineVars,
                   platformVars, detectorVars, waitVars, storageVars, sinkVars>>

\* the waiting runs, begun before or after the sink is there
InitSink ==
    /\ \E h \in {"www.hulu.com", "example.com"} :
           hostname = h /\ conflictPolicy = IsSupportedPlatform(h)
    /\ domVideo = TRUE
    /\ \E notifier \in BOOLEAN : dom = [BarePage EXCEPT !.notifier = notifier]
    /\ currentPlayer = TRUE
    /\ video \in {LiveVideo, EmptyVideo}
    /\ settings = defaultSettings
    /\ Running
    /\ now = keyRepeatDelay
    /\ evt = NoEvent
    /\ pendingSeek = <<>>
    /\ lastOp = NoOp
    /\ muteRun = [n |-> 0, origin |-> FALSE]
    /\ apiCalls = 0

NextSink == NextWait \/ NotificationScriptRuns

SpecSink == InitSink /\ [][NextSink]_vars

\* two outcomes with the same return value, final value and effects
SameOutcome(a, b) ==
    /\ a.ret = b.ret
    /\ a.res = b.res
    /\ a.video = b.video
    /\ a.wrote = b.wrote
    /\ a.clicked = b.clicked

\* C35: the sink's presence never changes what an action returns or does
\* to the element: wherever two states differ only in that the sink is
\* absent in one and present in the other, every executor call and every
\* seek resumed from its metadata wait has the same outcome in both.
C35_SinkNeverMatters ==
    [][(~dom.notifier /\ dom'.notifier)
       => /\ \A c \in ExecCalls, env \in Envs :
                 SameOutcome(Invoke(Entry(c[1], c[2], FALSE, FALSE), env),
                             Invoke(Entry(c[1], c[2], FALSE, FALSE), env)')
          /\ \A i \in 1..Len(pendingSeek), metadataReady \in BOOLEAN :
                 SameOutcome(SeekResume(pendingSeek[i].kind, pendingSeek[i].arg,
                                        video, metadataReady),
                             SeekResume(pendingSeek[i].kind, pendingSeek[i].arg,
                                        video, metadataReady)')]_vars

(***************************************************************************)
(* Captions: elements with up to two text tracks, pages with and without   *)
(* a visible caption button.                                               *)
(***************************************************************************)
TrackModes == {"disabled", "hidden", "showing"}

TrackLists == {<<>>} \cup {<<m>> : m \in TrackModes}
              \cup {<<m, n>> : m \in TrackModes, n \in TrackModes}

InitCaptions ==
    /\ \E h \in {"www.hulu.com", "example.com"} :
           hostname = h /\ conflictPolicy = IsSupportedPlatform(h)
    /\ domVideo = TRUE
    /\ \E button \in BOOLEAN : dom = [BarePage EXCEPT !.captionsButton = button]
    /\ currentPlayer \in BOOLEAN
    /\ \E tracks \in TrackLists :
           video = [LoadedVideo(200, 2) EXCEPT !.textTracks = tracks]
    /\ settings = defaultSettings
    /\ Running
    /\ now = keyRepeatDelay
    /\ evt = NoEvent
    /\ pendingSeek = <<>>
    /\ lastOp = NoOp
    /\ muteRun = [n |-> 0, origin |-> FALSE]
    /\ apiCalls = 0

NextCaptions ==
    \/ \E env \in Envs : Call("toggleCaptions", <<>>, env)
    \/ \E player \in BOOLEAN : handlePlayerChange(player)

SpecCaptions == InitCaptions /\ [][NextCaptions]_vars

\* C36: a toggleCaptions call on a connected player whose element has text
\* tracks returns true, turns the first track from showing to not showing
\* or from not showing to showing, and leaves every other track's mode as
\* it was; with no tracks it clicks the visible caption button and returns
\* true, or returns false and changes nothing when there is no button.
C36_TogglesFirstTrackOnly ==
    [][(apiCalls' = apiCalls + 1 /\ currentPlayer)
       => IF Len(video.textTracks) > 0
          THEN /\ lastOp'.ret = "true"
               /\ Len(video'.textTracks) = Len(video.textTracks)
               /\ (video'.textTracks[1] = "showing") = (video.textTracks[1] # "showing")
               /\ \A i \in 2..Len(video.textTracks) :
                      video'.textTracks[i] = video.textTracks[i]
          ELSE /\ video' = video
               /\ IF dom.captionsButton
                  THEN lastOp'.ret = "true" /\ lastOp'.clicked = <<"captionsButton">>
                  ELSE lastOp'.ret = "false" /\ lastOp'.clicked = <<>>]_vars

(***************************************************************************)
(* ConfigManager and chrome.storage.sync.  The constructor issues the      *)
(* storage read of loadSettings; set assigns the setting and hands the     *)
(* whole of currentSettings to the storage.                                *)
(***************************************************************************)
\* what an earlier session left in the storage, if anything
StoredBefore == {<<>>, <<[defaultSettings EXCEPT !.seekAmount = 10]>>}

\* the settings written while the extension starts
ConfigWrites == {<<"seekAmount", 30>>, <<"enableVolumeControl", FALSE>>}

\* the storage answers the read that loadSettings issued
storageGet ==
    /\ ~loadReply.read
    /\ loadReply' = [read |-> TRUE, value |-> stored]
    /\ UNCHANGED <<siteVars, pageVars, currentPlayer, video, settings, handlerVars,
                   now, evt, pendingSeek, execVars, startupVars, pipelineVars,
                   platformVars, detectorVars, waitVars, stored, sinkVars>>

\* the page right after the content scripts ran: ConfigManager constructed,
\* its storage read under way, initializeComponents not yet run
InitConfig ==
    /\ hostname = "example.com"
    /\ conflictPolicy = FALSE
    /\ domVideo = TRUE
    /\ dom = BarePage
    /\ currentPlayer = FALSE
    /\ video = LoadedVideo(200, 2)
    /\ settings = defaultSettings
    /\ keyboardHandler = FALSE
    /\ isEnabled = FALSE
    /\ pressedKeys = {}
    /\ lastKeyTime = 0
    /\ keyMappings = << >>
    /\ now = keyRepeatDelay
    /\ evt = NoEvent
    /\ pendingSeek = <<>>
    /\ lastOp = NoOp
    /\ muteRun = [n |-> 0, origin |-> FALSE]
    /\ apiCalls = 0
    /\ phase = "starting"
    /\ retryCount = 0
    /\ retryDelay = 0
    /\ giveUpLogs = 0
    /\ configAvailable = TRUE
    /\ configLoaded = FALSE
    /\ isInitialized = FALSE
    /\ platformIntegration = "null"
    /\ listeners = 0
    /\ urlWatchers = 0
    /\ urlNotices = 0
    /\ reinitTimers = 0
    /\ initTimers = 0
    /\ userEnabled = TRUE
    /\ NoPlatform
    /\ NoDetector
    /\ sink = NoNotification
    /\ wait = NoWait
    /\ stored \in StoredBefore
    /\ loadReply = [read |-> FALSE, value |-> <<>>]
    /\ sink = NoNotification

NextConfig ==
    \/ storageGet
    \/ loadSettings
    \/ \E w \in ConfigWrites : set(w[1], w[2])
    \/ initializeComponents(FALSE)
    \/ waitForLoad(FALSE)
    \/ \E player \in BOOLEAN : handlePlayerChange(player)
    \/ \E env \in Envs : KeyDown(Press("KeyM"), env)
    \/ KeyUp(Press("KeyM"))

SpecConfig == InitConfig /\ [][NextConfig]_vars

\* C37: a setting written through set before the storage load completes
\* survives the load: right after loadSettings has completed, the setting
\* still has the written value in memory and in the storage.  (Before the
\* load, a setting differs from its default only if set wrote it.)
C37_SetSurvivesLoad ==
    [][(~configLoaded /\ configLoaded')
       => \A k \in DOMAIN settings :
              settings[k] # defaultSettings[k]
                 => /\ settings'[k] = settings[k]
                    /\ stored' # <<>>
                    /\ stored'[1][k] = settings[k]]_vars

(***************************************************************************)
(* SeekerNotification: show, the auto-hide timer, hide with its delayed    *)
(* removal, clear, enable and disable.                                     *)
(***************************************************************************)
\* notifications created in a run
MaxShown == 5

\* SeekerNotification.clear applied to the sink n
clearOf(n) ==
    [n EXCEPT !.hideTimeout = FALSE,
              !.container = IF n.current # 0 THEN @ \ {n.current} ELSE @,
              !.hiding = IF n.current # 0 /\ n.hiding = n.current THEN 0 ELSE @,
              !.current = 0]

SinkFrame ==
    UNCHANGED <<siteVars, pageVars, currentPlayer, video, settings, handlerVars,
                now, evt, pendingSeek, execVars, startupVars, pipelineVars,
                platformVars, detectorVars, waitVars, storageVars>>

\* SeekerNotification.show
show ==
    /\ sink.created < MaxShown
    /\ sink.isEnabled
    /\ LET n == clearOf(sink)
           id == sink.created + 1
       IN  sink' = [n EXCEPT !.container = @ \cup {id}, !.current = id,
                             !.hideTimeout = TRUE, !.created = id]
    /\ SinkFrame

\* the auto-hide timer fires: SeekerNotification.hide
hide ==
    /\ sink.hideTimeout
    /\ sink' = IF sink.current = 0 THEN [sink EXCEPT !.hideTimeout = FALSE]
               ELSE [sink EXCEPT !.hiding = sink.current,
                                 !.removals = @ + 1,
                                 !.hideTimeout = FALSE]
    /\ SinkFrame

\* the 300 ms timer of a hide() fires
removalFires ==
    /\ sink.removals > 0
    /\ sink' = IF sink.current = 0 THEN [sink EXCEPT !.removals = @ - 1]
               ELSE [sink EXCEPT !.removals = @ - 1,
                                 !.container = @ \ {sink.current},
                                 !.hiding = IF sink.hiding = sink.current THEN 0 ELSE @,
                                 !.current = 0]
    /\ SinkFrame

\* SeekerNotification.clear
clear ==
    /\ sink.current # 0
    /\ sink' = clearOf(sink)
    /\ SinkFrame

\* SeekerNotification.disable and enable
sinkSetEnabled(enabled) ==
    /\ sink.isEnabled # enabled
    /\ sink' = IF enabled THEN [sink EXCEPT !.isEnabled = TRUE]
               ELSE [clearOf(sink) EXCEPT !.isEnabled = FALSE]
    /\ SinkFrame

InitNotification == InitOn({<<"example.com", FALSE>>}, {LoadedVideo(200, 2)})

NextNotification ==
    \/ show
    \/ hide
    \/ removalFires
    \/ clear
    \/ \E enabled \in BOOLEAN : sinkSetEnabled(enabled)

SpecNotification == InitNotification /\ [][NextNotification]_vars

\* C38: the container never holds more than one notification, and the
\* delayed removal a hide() scheduled removes nothing but the notification
\* that hide() was hiding: a notification shown later stays until its own
\* timer, a later show, clear or disable takes it away.
C38_RemovalSparesLaterNotification ==
    /\ [](Cardinality(sink.container) <= 1)
    /\ [][sink'.removals < sink.removals
            => \A id \in sink.container \ sink'.container : id = sink.hiding]_vars
====
